---- MODULE Spec2Model ----
(***************************************************************************)
(* Model of the maomao security robot's mode/alarm state machine           *)
(* (backend/modes/mode_manager.py), its command entry point                *)
(* (backend/core/robot_controller.py), the perception classification       *)
(* (backend/vision/vision_system.py) and the websocket command/broadcast   *)
(* layer (backend/communication/websocket_server.py).                      *)
(*                                                                         *)
(* Time is counted in whole seconds (time.time() truncated); the main loop *)
(* of backend/main.py alternates one update with one sleep.                *)
(***************************************************************************)
EXTENDS Integers, Sequences, FiniteSets, TLC

\* ---- bounds of the model ------------------------------------------------
MaxTime == 17        \* the clock stops advancing here
MaxTickGap == 2      \* a sleep of the main loop lasts 1..MaxTickGap seconds
MaxCommands == 1     \* client commands handled in one run
MaxClients == 2      \* websocket connections made in one run
MaxFrames == 3       \* camera frames read in one run
MaxReceived == 3     \* messages the clients leave waiting in their connections in one run
MaxThreads == 3      \* threads in _video_streaming_loop at one time
MaxLateTime == 37    \* the clock's last value in the runs that go through a detection pause

\* ---- program constants --------------------------------------------------
PauseSeconds == 30       \* detection pause after a trusted recognition
YellowSeconds == 5       \* warning time before the red alarm
CountdownStart == 10     \* red alarm countdown
PatrolInterval == 5      \* seconds between two patrol moves
PatrolMoveSeconds == 1   \* time.sleep(1.0) between patrol move and stop

VARIABLES
    mm,            \* the ModeManager's fields
    latest_data,   \* VisionSystem.latest_data
    now,           \* time.time()
    pc,            \* position of the main loop: "start", "update", "sleep"
    running,       \* RobotController.running
    calls,         \* actuator calls made by the last operation, in order
    events,        \* recognition_result messages handed to broadcast_status by the last operation
    lastOp,        \* history: name of the last operation
    redTicks,      \* history: untrusted-face ticks handled since the red alarm was raised
    nCommands,     \* history: number of commands the Command steps have handled
    pre,           \* history: alarm sub-state and countdown before the last operation
    continuous,    \* history: every tick since the warning started saw an untrusted face
    patrolMoves,   \* history: the times at which the ticks began a patrol move, in order
    firstUntrusted, \* history: the time of the first untrusted-face tick outside the pause
                   \* since the start or the last trusted recognition: <<>> or <<t>>
    clients,       \* WebSocketServer.clients
    video_clients, \* WebSocketServer.video_clients
    ws_running,    \* WebSocketServer.running
    video_streaming, \* WebSocketServer.video_streaming
    conn,          \* per websocket, numbered in the order they connect: "none", "open",
                   \* "closed" (peer gone, handler still there), "done"
    delivered,     \* messages the last operation delivered, in order: [to, type, id]
    bcast,         \* history: the last _broadcast: its client list and the outcome of each send
    lastReq,       \* history: the last inbound message
    latest_frame,  \* VisionSystem.latest_frame: <<>> for None, else <<the frame>>
    nPushed,       \* history: frames the camera thread has stored, the k-th frame being k
    shown,         \* history: the frame the last pass of the video loop encoded, if it was one
    inbox,         \* per websocket: the messages received and not yet taken by the handler's
                   \* "async for", oldest first, each with its number on the connection
    nReceived,     \* history, per websocket: messages put into inbox
    nHandled,      \* history, per websocket: messages taken from inbox
    lastSeq,       \* history: the number of the message taken from inbox last, or 0
    lock,          \* WebSocketServer.lock: "none" or the thread that holds it
    video_pc,      \* the video thread: "run", "sleep" inside a time.sleep, or "send":
                   \* between its copy of the video client list and the sends to it
    video_snap,    \* the video thread's local video_clients list while video_pc = "send"
    tick_pc,       \* the main thread inside RobotController.update: "idle" (not in it),
                   \* "acting" (in mode_manager.update), "status" (in get_status and
                   \* broadcast_status), "writing" (in its branch's assignments),
                   \* "raised" (left by an exception)
    pending,       \* the actuator calls of this tick that are still to be made, in order
    held,          \* the lock the main thread's interrupted frame holds: "none" or its owner
    stop_pc,       \* the signal handler: "none" (no signal yet), else the statement of
                   \* RobotController.shutdown it is at, or "exit"
    stopped,       \* history: what shutdown has stopped so far, in order
    movement,      \* MovementController: current_direction and square_path_active
    lastMove,         \* history: the last move command: its direction, its continuous
                   \* flag and the success field of the reply
    waiting,       \* the clients whose send the main thread's broadcast_status awaits
    tick_writes,   \* the assignments of this tick's surveillance branch still to be made
    clear_writes,  \* the assignments of a running clear_alarm still to be made
    video_threads, \* number of threads that are inside _video_streaming_loop
    obs,           \* number of the observation that latest_data holds (its timestamp)
    snapshot       \* the status being built by get_status: <<>>, then <<the observation
                   \* its vision fields are from>>, then that and the one of its timestamp

robot == <<mm, latest_data, now, pc, running, redTicks, nCommands, continuous, patrolMoves,
          firstUntrusted>>
net == <<clients, video_clients, ws_running, video_streaming, conn, delivered, bcast, lastReq>>
camera == <<latest_frame, nPushed>>
queue == <<inbox, nReceived, nHandled, lastSeq>>
locking == <<lock, video_pc, video_snap>>
halt == <<tick_pc, pending, held, stop_pc, stopped>>
detail == <<movement, lastMove, waiting, tick_writes, clear_writes, video_threads, obs, snapshot>>
vars == <<mm, latest_data, now, pc, running, calls, events, lastOp,
          redTicks, nCommands, pre, continuous, patrolMoves, firstUntrusted, clients, video_clients, ws_running,
          video_streaming, conn, delivered, bcast, lastReq, latest_frame, nPushed, shown,
          inbox, nReceived, nHandled, lastSeq, lock, video_pc, video_snap,
          tick_pc, pending, held, stop_pc, stopped,
          movement, lastMove, waiting, tick_writes, clear_writes, video_threads, obs, snapshot>>

\* ---- RobotMode ------------------------------------------------------------
RobotMode == {"MANUAL", "PATROL", "SURVEILLANCE"}
NoMode == "NONE"

Directions == {"forward", "backward", "left", "right"}

\* result of one operation of the mode manager
R(m, c, e) == [m |-> m, calls |-> c, events |-> e]

\* ModeManager.__init__
InitModeManager ==
    [ current_mode |-> NoMode,
      patrol_last_move_time |-> 0,
      patrol_active |-> FALSE,
      surveillance_countdown |-> 0,
      surveillance_intruder_detected |-> FALSE,
      surveillance_yellow_warning |-> FALSE,
      surveillance_yellow_start_time |-> 0,
      detection_pause_until |-> 0,
      alarm_active |-> FALSE,
      face_tracking_enabled |-> TRUE ]

\* ---- perception -----------------------------------------------------------
ClassNames == {"Jeffrey", "Sonia", "Sonia_ID"}

\* "sonia" in class_name.lower()
NameHasSonia(class_name) == class_name \in {"Sonia", "Sonia_ID"}
\* "id" in class_name.lower() or "card" in class_name.lower()
NameHasIdOrCard(class_name) == class_name \in {"Sonia_ID"}

\* VisionSystem.__init__: latest_data
InitLatestData ==
    [face_detected |-> FALSE, recognized_person |-> "None", student_id_detected |-> FALSE]

\* VisionSystem._analyze_frame: the observation made from one frame
AnalyzeFrame(nfaces, class_name, above_threshold) ==
    LET data == [face_detected |-> nfaces > 0, recognized_person |-> "None",
                 student_id_detected |-> FALSE]
    IN  IF nfaces = 0 \/ ~above_threshold THEN data
        ELSE LET d1 == IF NameHasSonia(class_name) /\ ~NameHasIdOrCard(class_name)
                       THEN [data EXCEPT !.recognized_person = "Sonia"]
                       ELSE data
                 d2 == IF NameHasIdOrCard(class_name) /\ NameHasSonia(class_name)
                       THEN [d1 EXCEPT !.recognized_person = "Sonia",
                                       !.student_id_detected = TRUE]
                       ELSE d1
             IN  d2

\* "sonia" in recognized_person.lower()
PersonIsSonia(recognized_person) == recognized_person = "Sonia"

\* ---- ModeManager ------------------------------------------------------------
\* ModeManager._exit_mode
ExitMode(m, mode) ==
    IF mode = "SURVEILLANCE"
    THEN R([m EXCEPT !.face_tracking_enabled = FALSE], <<"stop">>, <<>>)
    ELSE IF mode = "MANUAL"
    THEN R(m, <<"stop", "stop_natural_blinking", "stop_arm_swinging">>, <<>>)
    ELSE R(m, <<"stop">>, <<>>)

\* ModeManager._enter_mode
EnterMode(m, mode, t) ==
    LET m1 == IF mode = "SURVEILLANCE"
              THEN [m EXCEPT !.face_tracking_enabled = TRUE] ELSE m
    IN  IF mode = "MANUAL"
        THEN R(m1, <<"stop_natural_blinking", "stop_arm_swinging">>, <<>>)
        ELSE IF mode = "PATROL"
        THEN R([m1 EXCEPT !.patrol_last_move_time = t],
               <<"stop_natural_blinking", "stop_led_blinking",
                 "stop_eyelid_blinking", "eye:yellow">>, <<>>)
        ELSE R(m1, <<>>, <<>>)

\* mutant of SetMode: the new mode is entered before the old one is left
SetModeEnterFirst(m, mode, t) ==
    IF m.current_mode = mode THEN R(m, <<>>, <<>>)
    ELSE LET e == EnterMode([m EXCEPT !.current_mode = mode], mode, t)
             x == IF m.current_mode # NoMode THEN ExitMode(e.m, m.current_mode)
                  ELSE R(e.m, <<>>, <<>>)
         IN  R(x.m, e.calls \o x.calls, <<>>)

\* ModeManager.set_mode
SetMode(m, mode, t) ==
    IF m.current_mode = mode THEN R(m, <<>>, <<>>)
    ELSE LET x == IF m.current_mode # NoMode THEN ExitMode(m, m.current_mode)
                  ELSE R(m, <<>>, <<>>)
             e == EnterMode([x.m EXCEPT !.current_mode = mode], mode, t)
         IN  R(e.m, x.calls \o e.calls, <<>>)

\* mutant of TrackFace: the face is followed during the detection pause too
TrackFaceInPause(m, vision_data, t) ==
    IF m.face_tracking_enabled /\ vision_data.face_detected
    THEN <<"follow_face">> ELSE <<>>

\* the face-tracking step at the head of ModeManager._update_surveillance_mode
TrackFace(m, vision_data, t) ==
    IF m.face_tracking_enabled /\ vision_data.face_detected
       /\ t >= m.detection_pause_until
    THEN <<"follow_face">> ELSE <<>>

\* mutant of TrustedReset: a warning in progress survives the recognition
TrustedResetKeepsWarning(m, t) ==
    [m EXCEPT !.surveillance_intruder_detected = FALSE,
              !.alarm_active = FALSE,
              !.surveillance_countdown = 0,
              !.detection_pause_until = t + PauseSeconds]

\* mutant of TrustedReset: the countdown and the red flag survive the recognition
TrustedResetKeepsAlarm(m, t) ==
    [m EXCEPT !.surveillance_yellow_warning = FALSE,
              !.alarm_active = FALSE,
              !.detection_pause_until = t + PauseSeconds]

\* _update_surveillance_mode, trusted branch: the alarm fields reset and the pause set
TrustedReset(m, t) ==
    [m EXCEPT !.surveillance_yellow_warning = FALSE,
              !.surveillance_intruder_detected = FALSE,
              !.alarm_active = FALSE,
              !.surveillance_countdown = 0,
              !.detection_pause_until = t + PauseSeconds]

\* mutant of WarningElapsed: the red alarm does not wait for the warning time
WarningElapsedAtOnce(m, t) == t - m.surveillance_yellow_start_time >= 0

\* _update_surveillance_mode: the warning has lasted long enough
WarningElapsed(m, t) == t - m.surveillance_yellow_start_time >= YellowSeconds

\* mutant of CountdownStep: two seconds per tick
CountdownStepTwo(countdown) == countdown - 2

\* _update_surveillance_mode: self.surveillance_countdown -= 1
CountdownStep(countdown) == countdown - 1

\* mutant of RaiseRed: the warning flag is left set when the red alarm is raised
RaiseRedKeepsWarning(m) ==
    [m EXCEPT !.surveillance_countdown = CountdownStart,
              !.surveillance_intruder_detected = TRUE,
              !.alarm_active = TRUE]

\* _update_surveillance_mode, escalation branch: the fields set with the red alarm
RaiseRed(m) ==
    [m EXCEPT !.surveillance_countdown = CountdownStart,
              !.surveillance_yellow_warning = FALSE,
              !.surveillance_intruder_detected = TRUE,
              !.alarm_active = TRUE]

\* ModeManager._update_surveillance_mode
UpdateSurveillanceMode(m, vision_data, t) ==
    LET face_detected == vision_data.face_detected
        recognized_person == vision_data.recognized_person
        track == TrackFace(m, vision_data, t)
    IN  IF t < m.detection_pause_until THEN R(m, track, <<>>)
        ELSE IF face_detected /\ recognized_person # "None"
                /\ PersonIsSonia(recognized_person)
        THEN R(TrustedReset(m, t),
               track \o <<"eye:green", "sound:happy", "lower_arms", "laser_off">>,
               <<"recognized">>)
        ELSE IF face_detected
                /\ (recognized_person = "None" \/ ~PersonIsSonia(recognized_person))
        THEN IF ~m.surveillance_yellow_warning /\ ~m.surveillance_intruder_detected
             THEN R([m EXCEPT !.surveillance_yellow_warning = TRUE,
                              !.surveillance_yellow_start_time = t],
                    track \o <<"eye:yellow">>, <<"warning">>)
             ELSE IF m.surveillance_yellow_warning
                     /\ ~m.surveillance_intruder_detected
                     /\ WarningElapsed(m, t)
             THEN R(RaiseRed(m),
                    track \o <<"eye:red", "raise_arms", "laser_on", "sound:intruder">>,
                    <<"alarm">>)
             ELSE IF m.surveillance_countdown > 0
             THEN R([m EXCEPT !.surveillance_countdown = CountdownStep(@)],
                    track, <<"countdown">>)
             ELSE R(m, track, <<>>)
        ELSE IF ~face_detected /\ m.surveillance_intruder_detected
        THEN IF ~m.alarm_active
             THEN R([m EXCEPT !.surveillance_intruder_detected = FALSE,
                              !.surveillance_countdown = 0],
                    track \o <<"eye:green", "sound:happy", "lower_arms", "laser_off">>,
                    <<"clear">>)
             ELSE R([m EXCEPT !.surveillance_intruder_detected = TRUE], track, <<>>)
        ELSE R(m, track, <<>>)

\* mutant of UpdatePatrolMode: a move as soon as the interval is reached
UpdatePatrolModeAtInterval(m, t, direction) ==
    IF ~m.patrol_active THEN R(m, <<>>, <<>>)
    ELSE IF t - m.patrol_last_move_time >= PatrolInterval
    THEN R([m EXCEPT !.patrol_last_move_time = t],
           <<"move:" \o direction, "stop">>, <<>>)
    ELSE R(m, <<>>, <<>>)

\* ModeManager._update_patrol_mode
UpdatePatrolMode(m, t, direction) ==
    IF ~m.patrol_active THEN R(m, <<>>, <<>>)
    ELSE IF t - m.patrol_last_move_time > PatrolInterval
    THEN R([m EXCEPT !.patrol_last_move_time = t],
           <<"move:" \o direction, "stop">>, <<>>)
    ELSE R(m, <<>>, <<>>)

\* ModeManager.update
ModeUpdate(m, vision_data, t, direction) ==
    IF m.current_mode = "PATROL" THEN UpdatePatrolMode(m, t, direction)
    ELSE IF m.current_mode = "SURVEILLANCE"
    THEN UpdateSurveillanceMode(m, vision_data, t)
    ELSE R(m, <<>>, <<>>)

\* mutant of ClearAlarm: every call takes the alarm down by one level only
ClearAlarmOneLevel(m) ==
    IF m.surveillance_intruder_detected
    THEN R([m EXCEPT !.alarm_active = FALSE,
                     !.surveillance_intruder_detected = FALSE,
                     !.surveillance_yellow_warning = TRUE,
                     !.surveillance_countdown = 0],
           <<"eye:yellow", "lower_arms", "laser_off">>, <<"cleared">>)
    ELSE R([m EXCEPT !.alarm_active = FALSE,
                     !.surveillance_yellow_warning = FALSE,
                     !.surveillance_countdown = 0],
           <<"eye:green", "lower_arms", "laser_off">>, <<"cleared">>)

\* mutant of ClearAlarm: the countdown is left running
ClearAlarmKeepsCountdown(m) ==
    R([m EXCEPT !.alarm_active = FALSE,
                !.surveillance_intruder_detected = FALSE],
      <<"eye:green", "lower_arms", "laser_off">>, <<"cleared">>)

\* ModeManager.clear_alarm
ClearAlarm(m) ==
    R([m EXCEPT !.alarm_active = FALSE,
                !.surveillance_intruder_detected = FALSE,
                !.surveillance_countdown = 0],
      <<"eye:green", "lower_arms", "laser_off">>, <<"cleared">>)

\* ModeManager.set_patrol_active
SetPatrolActive(m, active, t) ==
    LET m1 == [m EXCEPT !.patrol_active = active]
    IN  IF active /\ m1.current_mode # "PATROL" THEN SetMode(m1, "PATROL", t)
        ELSE R(m1, <<>>, <<>>)

\* ---- RobotController --------------------------------------------------------
\* the mode names a set_mode command may carry ("NoName": the field is missing)
ModeNames == {"manual", "PATROL", "Surveillance", "bogus", "NoName"}

\* mode_name.upper()
Upper(mode_name) ==
    CASE mode_name = "manual" -> "MANUAL"
      [] mode_name = "PATROL" -> "PATROL"
      [] mode_name = "Surveillance" -> "SURVEILLANCE"
      [] OTHER -> "BOGUS"

CommandTypes == {"set_mode", "clear_alarm", "start_patrol", "stop_patrol", "reset",
                 "foo"}

Commands ==
    [type : {"set_mode"}, mode : ModeNames]
    \cup [type : CommandTypes \ {"set_mode"}, mode : {"-"}]

\* result of RobotController.handle_command: the mode manager's result and the
\* outcome ("success", "failure": a dict with that success flag; "raise": an exception)
RC(r, outcome) == [m |-> r.m, calls |-> r.calls, events |-> r.events, result |-> outcome]

\* RobotController.reset
Reset(m, t) ==
    LET s == SetMode(m, "SURVEILLANCE", t)
    IN  R(s.m, <<"reset_all", "stop">> \o s.calls, <<>>)

\* the outcomes of the serial write, for the one command whose answer depends on it
HwOutcomes(cmd_type) == IF cmd_type = "start_patrol" THEN BOOLEAN ELSE {TRUE}

\* RobotController.handle_command; hw_ok: the serial write of start_patrol succeeds
HandleCommand(m, command, t, hw_ok) ==
    LET cmd_type == command.type
    IN  IF cmd_type = "set_mode"
        THEN IF command.mode = "NoName" THEN RC(R(m, <<>>, <<>>), "raise")
             ELSE IF Upper(command.mode) \in RobotMode
             THEN RC(SetMode(m, Upper(command.mode), t), "success")
             ELSE RC(R(m, <<>>, <<>>), "failure")
        ELSE IF cmd_type = "reset" THEN RC(Reset(m, t), "success")
        ELSE IF cmd_type = "clear_alarm" THEN RC(ClearAlarm(m), "success")
        ELSE IF cmd_type = "start_patrol"
        THEN LET s1 == IF m.current_mode # "PATROL" THEN SetMode(m, "PATROL", t)
                       ELSE R(m, <<>>, <<>>)
                 s2 == SetPatrolActive(s1.m, TRUE, t)
             IN  RC(R(s2.m, s1.calls \o s2.calls \o <<"start_patrol">>, <<>>),
                    IF hw_ok THEN "success" ELSE "failure")
        ELSE IF cmd_type = "stop_patrol"
        THEN LET s == SetPatrolActive(m, FALSE, t)
             IN  RC(R(s.m, <<"stop">> \o s.calls, <<>>), "success")
        ELSE RC(R(m, <<>>, <<>>), "failure")

\* ---- WebSocketServer ---------------------------------------------------------
Clients == 1..MaxClients

\* what one send of a broadcast can do: "ok"; "closed": raises ConnectionClosed;
\* "error": raises another exception; "probe": _is_connection_closed returned True
SendOutcomes == {"ok", "error", "closed", "probe"}

NoBroadcast == [snap |-> {}, outcome |-> <<>>]
NoRequest == [client |-> 0, kind |-> "none", type |-> "-", id |-> "-", mode |-> "-"]

\* the outcomes the sends of one broadcast to the clients of snap can have
OutcomesFor(snap, cn) ==
    { o \in [snap -> SendOutcomes] :
        \A c \in snap : IF cn[c] = "open" THEN o[c] \in {"ok", "error"}
                        ELSE o[c] \in {"closed", "probe", "error"} }

\* list(self.clients): the registry as a list
RECURSIVE SetToSeq(_)
SetToSeq(S) ==
    IF S = {} THEN <<>>
    ELSE LET c == CHOOSE x \in S : \A y \in S : x <= y
         IN  <<c>> \o SetToSeq(S \ {c})

\* a registry and what was delivered
N(cl, vc, d) == [clients |-> cl, video_clients |-> vc, delivered |-> d]

\* mutant of Unregister: the websocket stays in video_clients
UnregisterStatusOnly(reg, websocket) ==
    N(reg.clients \ {websocket}, reg.video_clients, reg.delivered)

\* WebSocketServer._handle_client, finally: the websocket leaves both registries
Unregister(reg, websocket) ==
    N(reg.clients \ {websocket}, reg.video_clients \ {websocket}, reg.delivered)

\* WebSocketServer._send_to_client
SendToClient(reg, client, msg, outcome) ==
    IF outcome = "ok"
    THEN N(reg.clients, reg.video_clients,
           Append(reg.delivered, [to |-> client, type |-> msg.type, id |-> msg.id]))
    ELSE IF outcome = "closed"
    THEN N(reg.clients \ {client}, reg.video_clients \ {client}, reg.delivered)
    ELSE reg

\* mutant of Broadcast: the first failing send ends the broadcast
RECURSIVE BroadcastUntilFailure(_, _, _, _)
BroadcastUntilFailure(reg, client_list, msg, outcome) ==
    IF client_list = <<>> THEN reg
    ELSE LET client == Head(client_list)
         IN  IF outcome[client] = "probe"
             THEN BroadcastUntilFailure(reg, Tail(client_list), msg, outcome)
             ELSE IF outcome[client] = "ok"
             THEN BroadcastUntilFailure(SendToClient(reg, client, msg, outcome[client]),
                                        Tail(client_list), msg, outcome)
             ELSE SendToClient(reg, client, msg, outcome[client])

\* WebSocketServer._broadcast: the probe, then one send task per client, gathered
RECURSIVE Broadcast(_, _, _, _)
Broadcast(reg, client_list, msg, outcome) ==
    IF client_list = <<>> THEN reg
    ELSE LET client == Head(client_list)
             reg1 == IF outcome[client] = "probe" THEN reg
                     ELSE SendToClient(reg, client, msg, outcome[client])
         IN  Broadcast(reg1, Tail(client_list), msg, outcome)

\* WebSocketServer.broadcast_status called on the control-loop thread;
\* snap is list(self.clients) taken under the lock
BroadcastStatusOp(reg, is_running, msg, outcome) ==
    IF ~is_running \/ reg.clients = {} THEN reg
    ELSE Broadcast(reg, SetToSeq(reg.clients), msg, outcome)

StatusMessage == [type |-> "status_update", id |-> "status_ts"]
EventMessage == [type |-> "recognition_result", id |-> "NoId"]
VideoMessage == [type |-> "video_frame", id |-> "NoId"]

\* ---- video frames ----------------------------------------------------------------
\* VisionSystem.__init__: latest_frame = None
NoFrame == <<>>

\* the simulated frame the video loop draws when there is no camera frame
Placeholder == 0

\* mutant of PushFrame: frames queue up behind the one not yet replaced
PushFrameQueued(slot, frame) == Append(slot, frame)

\* VisionSystem._process_frames: self.latest_frame = frame.copy()
PushFrame(slot, frame) == <<frame>>

\* VisionSystem.get_latest_frame: None or a copy of the slot's frame
GetLatestFrame(slot) == IF slot = NoFrame THEN NoFrame ELSE <<Head(slot)>>

\* _video_streaming_loop: the frame it encodes
FrameToSend(vision_frame) ==
    IF vision_frame # NoFrame THEN Head(vision_frame) ELSE Placeholder

\* ---- inbound messages ----------------------------------------------------------
Ids == {"a", "NoId"}
ControlTypes == {"ping", "get_status", "start_video_stream", "stop_video_stream"}
\* the types passed on to RobotController.handle_command, one for each way it
\* can end: a mode change, a success without one, a failure dict, an exception
ForwardedTypes == {"set_mode", "clear_alarm", "foo"}

\* what a client can send: text that is not JSON, JSON that is not an object
\* with a "type" field, or a command
RawMessages ==
    [kind : {"garbage", "nonobject"}, type : {"-"}, id : {"-"}, mode : {"-"}]
    \cup [kind : {"command"}, type : ControlTypes \cup (ForwardedTypes \ {"set_mode"}),
          id : Ids, mode : {"-"}]
    \cup [kind : {"command"}, type : {"set_mode"}, id : Ids, mode : ModeNames]

\* the messages clients send in a burst
QueuedMessages ==
    { m \in RawMessages :
        \/ m.kind \in {"garbage", "nonobject"}
        \/ m.kind = "command" /\ m.type = "ping" /\ m.id = "a"
        \/ m.kind = "command" /\ m.type = "set_mode" /\ m.id = "a"
              /\ m.mode \in {"manual", "PATROL"} }

\* mutant of MalformedReply: the sender is told about its error
MalformedReplyError(websocket) == <<[to |-> websocket, type |-> "error", id |-> "unknown"]>>

\* _handle_client: what is sent back for a payload that is not JSON ("continue")
\* or not an object with a type (a warning is logged): nothing
MalformedReply(websocket) == <<>>

\* mutant of NextMessage: the message that arrived last is taken first
NextMessageNewest(q) == q[Len(q)]

\* "async for message in websocket": the oldest waiting message
NextMessage(q) == Head(q)

\* the command types whose handling enters "with self.lock:": the two video
\* commands and clear_alarm, whose broadcast_status copies the client list
TakesLock(command_type) ==
    command_type \in {"start_video_stream", "stop_video_stream", "clear_alarm"}

\* _handle_command, stop_video_stream of the last video client: stop_video_streaming
\* joins the video thread, which ends its pass first, before the reply is sent
JoinsVideoThread(vc, vs, websocket, command_type) ==
    command_type = "stop_video_stream" /\ vc \ {websocket} = {} /\ vs

\* data.get("id", "unknown")
CommandId(data) == IF data.id = "NoId" THEN "unknown" ELSE data.id

\* await websocket.send(...) on the connection's own event loop
WsSend(d, send_ok, client, type, id) ==
    IF send_ok THEN Append(d, [to |-> client, type |-> type, id |-> id]) ELSE d

\* result of WebSocketServer._handle_command
H(r, vc, vs, d) ==
    [m |-> r.m, calls |-> r.calls, events |-> r.events,
     video_clients |-> vc, video_streaming |-> vs, delivered |-> d]

\* mutant of WsHandleCommand: every type is passed on to the command handler
WsHandleCommandForwardAll(m, vc, vs, websocket, data, send_ok, hw_ok, t) ==
    LET command_id == CommandId(data)
        r == HandleCommand(m, [type |-> data.type, mode |-> data.mode], t, hw_ok)
    IN  IF r.result = "raise"
        THEN H(r, vc, vs, WsSend(<<>>, send_ok, websocket, "error", command_id))
        ELSE H(r, vc, vs, WsSend(<<>>, send_ok, websocket, "result", command_id))

\* WebSocketServer._handle_command (with _send_status, start_video_streaming and
\* stop_video_streaming); send_ok: the connection still takes a send
WsHandleCommand(m, vc, vs, websocket, data, send_ok, hw_ok, t) ==
    LET command_type == data.type
        command_id == CommandId(data)
        same == R(m, <<>>, <<>>)
    IN  IF command_type = "ping"
        THEN H(same, vc, vs, WsSend(<<>>, send_ok, websocket, "pong", command_id))
        ELSE IF command_type = "get_status"
        THEN H(same, vc, vs,
               WsSend(<<>>, send_ok, websocket, StatusMessage.type, StatusMessage.id))
        ELSE IF command_type = "start_video_stream"
        THEN H(same, vc \cup {websocket}, TRUE,
               WsSend(<<>>, send_ok, websocket, "command_response", command_id))
        ELSE IF command_type = "stop_video_stream"
        THEN H(same, vc \ {websocket},
               IF vc \ {websocket} = {} THEN FALSE ELSE vs,
               WsSend(<<>>, send_ok, websocket, "command_response", command_id))
        ELSE LET r == HandleCommand(m, [type |-> data.type, mode |-> data.mode], t, hw_ok)
             IN  IF r.result = "raise"
                 THEN H(r, vc, vs, WsSend(<<>>, send_ok, websocket, "error", command_id))
                 ELSE LET d1 == WsSend(<<>>, send_ok, websocket, "result", command_id)
                      IN  H(r, vc, vs,
                            IF send_ok THEN d1
                            ELSE WsSend(d1, send_ok, websocket, "error", command_id))

\* ---- history -----------------------------------------------------------------
\* the alarm sub-state the flags of the mode manager stand for
AlarmState(m) ==
    IF m.surveillance_intruder_detected THEN "RED_ALARM"
    ELSE IF m.surveillance_yellow_warning THEN "YELLOW_WARNING"
    ELSE "IDLE"

PreOf(m) == [alarm |-> AlarmState(m), countdown |-> m.surveillance_countdown]

\* the untrusted-face branch of _update_surveillance_mode runs on this tick
UntrustedFaceTick(m, vision_data, t) ==
    /\ m.current_mode = "SURVEILLANCE"
    /\ t >= m.detection_pause_until
    /\ vision_data.face_detected
    /\ ~PersonIsSonia(vision_data.recognized_person)

\* the first-untrusted-tick history after a tick that took m to m2: forgotten when
\* the tick set a new detection pause (the trusted branch), set by the first
\* untrusted-face tick outside the pause
FirstUntrustedAfter(first, m, m2, vision_data, t) ==
    IF m2.detection_pause_until # m.detection_pause_until THEN <<>>
    ELSE IF UntrustedFaceTick(m, vision_data, t) /\ first = <<>> THEN <<t>>
    ELSE first

\* messages put into the inboxes so far
RECURSIVE SumOver(_, _)
SumOver(f, S) ==
    IF S = {} THEN 0
    ELSE LET c == CHOOSE x \in S : TRUE IN f[c] + SumOver(f, S \ {c})

TotalReceived == SumOver(nReceived, Clients)

\* ---- MovementController and the move command ---------------------------------------
\* MovementController.__init__
InitMovement == [current_direction |-> "stop", square_path_active |-> FALSE]

NoMove == [direction |-> "-", continuous |-> FALSE, success |-> FALSE]

\* valid_directions of MovementController.move
ValidDirections == {"forward", "backward", "left", "right", "stop",
                    "continuous_forward", "continuous_backward", "square_path"}

\* valid_directions of MovementController.start_continuous_movement
ContinuousDirections == {"forward", "backward", "left", "right"}

\* the directions the clients send: "up" is none the robot knows, "None" is
\* what cmd_data.get("direction") gives for a command without a direction
MoveInputs == {"forward", "left", "stop", "square_path", "up", "None"}

\* movement state, motor commands sent, returned value
MV(mv, c, ok) == [movement |-> mv, calls |-> c, result |-> ok]

\* MovementController.move
Move(mv, direction) ==
    IF direction \notin ValidDirections THEN MV(mv, <<>>, FALSE)
    ELSE MV([current_direction |-> direction,
             square_path_active |-> (direction = "square_path")],
            IF direction # "square_path" THEN <<"move:" \o direction>> ELSE <<>>,
            TRUE)

\* MovementController.start_continuous_movement
StartContinuousMovement(mv, direction) ==
    IF direction \notin ContinuousDirections THEN MV(mv, <<>>, FALSE)
    ELSE MV([mv EXCEPT !.current_direction = direction], <<"move:" \o direction>>, TRUE)

\* RobotController.handle_command, cmd_type == "move": the value the movement
\* controller returns is dropped and the reply says success
HandleMove(mv, direction, is_continuous) ==
    LET r == IF is_continuous THEN StartContinuousMovement(mv, direction)
             ELSE Move(mv, direction)
    IN  MV(r.movement, r.calls, TRUE)

\* ---- operations ----------------------------------------------------------------
Init ==
    /\ mm = InitModeManager
    /\ latest_data = InitLatestData
    /\ now = 0
    /\ pc = "start"
    /\ running = FALSE
    /\ calls = <<>>
    /\ events = <<>>
    /\ lastOp = "init"
    /\ redTicks = 0
    /\ nCommands = 0
    /\ pre = PreOf(InitModeManager)
    /\ continuous = FALSE
    /\ patrolMoves = <<>>
    /\ firstUntrusted = <<>>
    /\ clients = {}
    /\ video_clients = {}
    /\ ws_running = FALSE
    /\ video_streaming = FALSE
    /\ conn = [c \in Clients |-> "none"]
    /\ delivered = <<>>
    /\ bcast = NoBroadcast
    /\ lastReq = NoRequest
    /\ latest_frame = NoFrame
    /\ nPushed = 0
    /\ shown = <<>>
    /\ inbox = [c \in Clients |-> <<>>]
    /\ nReceived = [c \in Clients |-> 0]
    /\ nHandled = [c \in Clients |-> 0]
    /\ lastSeq = 0
    /\ lock = "none"
    /\ video_pc = "run"
    /\ video_snap = {}
    /\ tick_pc = "idle"
    /\ pending = <<>>
    /\ held = "none"
    /\ stop_pc = "none"
    /\ stopped = <<>>
    /\ movement = InitMovement
    /\ lastMove = NoMove
    /\ waiting = {}
    /\ tick_writes = <<>>
    /\ clear_writes = <<>>
    /\ video_threads = 0
    /\ obs = 0
    /\ snapshot = <<>>

\* RobotController.start
Start ==
    /\ pc = "start"
    /\ LET r == SetMode(mm, "SURVEILLANCE", now)
       IN  /\ mm' = r.m
           /\ calls' = r.calls
           /\ events' = r.events
    /\ running' = TRUE
    /\ ws_running' = TRUE
    /\ pc' = "update"
    /\ lastOp' = "start"
    /\ pre' = PreOf(mm)
    /\ UNCHANGED <<detail, latest_data, now, redTicks, nCommands, continuous, patrolMoves, firstUntrusted, clients, video_clients,
                   video_streaming, conn, delivered, bcast, lastReq, camera, shown, queue, locking, halt>>

\* VisionSystem._process_frames: one classified frame. latest_data is read only
\* by the surveillance update, so the frame in place when that update starts is
\* the one that counts; the frames classified at other times are overwritten by it
Analyze ==
    /\ running
    /\ pc = "update"
    /\ tick_pc = "idle"
    /\ mm.current_mode = "SURVEILLANCE"
    /\ \E nfaces \in 0..1, class_name \in ClassNames, above \in BOOLEAN :
          /\ latest_data' = AnalyzeFrame(nfaces, class_name, above)
          /\ latest_data' # latest_data
    /\ lastOp' = "analyze"
    /\ calls' = <<>>
    /\ events' = <<>>
    /\ pre' = PreOf(mm)
    /\ UNCHANGED <<detail, mm, now, pc, running, redTicks, nCommands, continuous, patrolMoves, firstUntrusted, net, camera, shown, queue, locking, halt>>

\* RobotController.update, one iteration of the main loop: the mode manager's
\* update with its event broadcast, then the status broadcast
UpdateUntil(limit) ==
    /\ pc = "update"
    /\ running
    /\ now < limit
    /\ clients # {} => lock = "none"
    /\ \E direction \in Directions :
          LET r == ModeUpdate(mm, latest_data, now, direction)
              moved == Len(r.calls) > 0 /\ mm.current_mode = "PATROL"
          IN  /\ mm' = r.m
              /\ calls' = r.calls
              /\ events' = r.events
              /\ now' = IF moved THEN now + PatrolMoveSeconds ELSE now
              /\ patrolMoves' = IF moved THEN Append(patrolMoves, now) ELSE patrolMoves
    /\ \E o1 \in OutcomesFor(clients, conn) :
          LET reg0 == N(clients, video_clients, <<>>)
              reg1 == IF events' # <<>>
                      THEN BroadcastStatusOp(reg0, ws_running, EventMessage, o1)
                      ELSE reg0
          IN  \E o2 \in OutcomesFor(reg1.clients, conn) :
                 LET reg2 == BroadcastStatusOp(reg1, ws_running, StatusMessage, o2)
                 IN  /\ clients' = reg2.clients
                     /\ video_clients' = reg2.video_clients
                     /\ delivered' = reg2.delivered
                     /\ bcast' = [snap |-> reg1.clients, outcome |-> o2]
    /\ redTicks' = IF mm'.surveillance_intruder_detected
                   THEN IF ~mm.surveillance_intruder_detected THEN 0
                        ELSE IF UntrustedFaceTick(mm, latest_data, now)
                        THEN redTicks + 1 ELSE redTicks
                   ELSE 0
    /\ continuous' = IF UntrustedFaceTick(mm, latest_data, now)
                     THEN IF AlarmState(mm) = "IDLE" THEN TRUE ELSE continuous
                     ELSE FALSE
    /\ firstUntrusted' = FirstUntrustedAfter(firstUntrusted, mm, mm', latest_data, now)
    /\ pre' = PreOf(mm)
    /\ pc' = "sleep"
    /\ lastOp' = "update"
    /\ UNCHANGED <<detail, latest_data, running, nCommands, ws_running, video_streaming,
                   conn, lastReq, camera, shown, queue, locking, halt>>

\* one iteration of the main loop in a run that is followed up to MaxTime
Update == UpdateUntil(MaxTime)

\* time.sleep(1.0) of the main loop, and whatever else delays the next tick
SleepUntil(limit) ==
    /\ pc = "sleep"
    /\ stop_pc = "none"
    /\ \E d \in 1..MaxTickGap :
          /\ now + d <= limit
          /\ now' = now + d
    /\ pc' = "update"
    /\ lastOp' = "sleep"
    /\ calls' = <<>>
    /\ events' = <<>>
    /\ pre' = PreOf(mm)
    /\ UNCHANGED <<detail, mm, latest_data, running, redTicks, nCommands, continuous, patrolMoves, firstUntrusted, net, camera, shown, queue, locking, halt>>

\* the main loop's sleep in a run that is followed up to MaxTime
Sleep == SleepUntil(MaxTime)

\* the same two steps in a run followed past the end of a detection pause
UpdateLate == UpdateUntil(MaxLateTime)

SleepLate == SleepUntil(MaxLateTime)

\* a client command reaching RobotController.handle_command
Command ==
    /\ running
    /\ nCommands < MaxCommands
    /\ \E command \in Commands :
       \E hw_ok \in HwOutcomes(command.type) :
          LET r == HandleCommand(mm, command, now, hw_ok)
          IN  /\ mm' = r.m
              /\ calls' = r.calls
              /\ events' = r.events
              /\ lastOp' = command.type
    /\ redTicks' = IF mm'.surveillance_intruder_detected THEN redTicks ELSE 0
    /\ nCommands' = nCommands + 1
    /\ pre' = PreOf(mm)
    /\ UNCHANGED <<detail, latest_data, now, pc, running, continuous, patrolMoves, firstUntrusted, net, camera, shown, queue, locking, halt>>

\* a set_mode command that names another mode than the current one reaching
\* RobotController.handle_command, any number of times in a run
ModeCommand ==
    /\ running
    /\ \E command \in [type : {"set_mode"}, mode : ModeNames] :
          LET r == HandleCommand(mm, command, now, TRUE)
          IN  /\ mm' = r.m
              /\ mm' # mm
              /\ calls' = r.calls
              /\ events' = r.events
              /\ lastOp' = command.type
    /\ redTicks' = IF mm'.surveillance_intruder_detected THEN redTicks ELSE 0
    /\ pre' = PreOf(mm)
    /\ UNCHANGED <<detail, latest_data, now, pc, running, nCommands, continuous, patrolMoves, firstUntrusted, net, camera, shown,
                   queue, locking, halt>>

\* WebSocketServer._handle_client up to its message loop: register, send the status
Connect ==
    /\ ws_running
    /\ lock = "none"
    /\ \E c \in Clients :
          /\ conn[c] = "none"
          /\ \A k \in Clients : k < c => conn[k] # "none"
          /\ conn' = [conn EXCEPT ![c] = "open"]
          /\ clients' = clients \cup {c}
          /\ delivered' = WsSend(<<>>, TRUE, c, StatusMessage.type, StatusMessage.id)
    /\ lastOp' = "connect"
    /\ bcast' = NoBroadcast
    /\ lastReq' = NoRequest
    /\ calls' = <<>>
    /\ events' = <<>>
    /\ pre' = PreOf(mm)
    /\ shown' = <<>>
    /\ UNCHANGED <<detail, robot, camera, queue, locking, halt, video_clients, ws_running, video_streaming>>

\* the peer closes the connection; its handler has not noticed yet
PeerClose ==
    /\ \E c \in Clients :
          /\ conn[c] = "open"
          /\ conn' = [conn EXCEPT ![c] = "closed"]
    /\ lastOp' = "peer_close"
    /\ delivered' = <<>>
    /\ bcast' = NoBroadcast
    /\ lastReq' = NoRequest
    /\ calls' = <<>>
    /\ events' = <<>>
    /\ pre' = PreOf(mm)
    /\ shown' = <<>>
    /\ UNCHANGED <<detail, robot, camera, queue, locking, halt, clients, video_clients, ws_running, video_streaming>>

\* WebSocketServer._handle_client: the finally block after the message loop ended
HandlerExit ==
    /\ lock = "none"
    /\ \E c \in Clients :
          /\ conn[c] = "closed"
          /\ conn' = [conn EXCEPT ![c] = "done"]
          /\ clients' = Unregister(N(clients, video_clients, <<>>), c).clients
          /\ video_clients' = Unregister(N(clients, video_clients, <<>>), c).video_clients
    /\ lastOp' = "handler_exit"
    /\ delivered' = <<>>
    /\ bcast' = NoBroadcast
    /\ lastReq' = NoRequest
    /\ calls' = <<>>
    /\ events' = <<>>
    /\ pre' = PreOf(mm)
    /\ shown' = <<>>
    /\ UNCHANGED <<detail, robot, camera, queue, locking, halt, ws_running, video_streaming>>

\* WebSocketServer._handle_client: one pass of the message loop, for the message
\* raw on websocket c; what becomes of inbox is left to the caller
HandleOne(c, raw) ==
    /\ ws_running
    /\ TakesLock(raw.type) => lock = "none"
    /\ JoinsVideoThread(video_clients, video_streaming, c, raw.type) => video_pc = "run"
    /\ \E hw_ok \in HwOutcomes(raw.type) :
          /\ conn[c] \in {"open", "closed"}
          /\ lastReq' = [client |-> c, kind |-> raw.kind, type |-> raw.type, id |-> raw.id,
                         mode |-> raw.mode]
          /\ IF raw.kind # "command"
             THEN /\ delivered' = MalformedReply(c)
                  /\ calls' = <<>>
                  /\ events' = <<>>
                  /\ UNCHANGED <<mm, redTicks, nCommands, video_clients, video_streaming>>
             ELSE LET h == WsHandleCommand(mm, video_clients, video_streaming, c, raw,
                                           conn[c] = "open", hw_ok, now)
                  IN  /\ mm' = h.m
                      /\ calls' = h.calls
                      /\ events' = h.events
                      /\ video_clients' = h.video_clients
                      /\ video_streaming' = h.video_streaming
                      /\ delivered' = h.delivered
                      /\ UNCHANGED nCommands
                      /\ redTicks' = IF mm'.surveillance_intruder_detected
                                     THEN redTicks ELSE 0
    /\ lastOp' = "message"
    /\ pre' = PreOf(mm)
    /\ bcast' = NoBroadcast
    /\ shown' = <<>>
    /\ UNCHANGED <<detail, latest_data, now, pc, running, continuous, patrolMoves, firstUntrusted, clients, ws_running, conn,
                   camera, locking, halt>>

\* a message arrives on a connection with nothing waiting and is handled
HandleMessage ==
    /\ \E c \in Clients, raw \in RawMessages :
          /\ inbox[c] = <<>>
          /\ HandleOne(c, raw)
    /\ UNCHANGED queue

\* a client sends a message while its handler is busy: the message waits
Receive ==
    /\ ws_running
    /\ \E c \in Clients, raw \in QueuedMessages :
          /\ conn[c] = "open"
          /\ TotalReceived < MaxReceived
          /\ inbox' = [inbox EXCEPT ![c] = Append(@, [raw |-> raw, seq |-> nReceived[c] + 1])]
          /\ nReceived' = [nReceived EXCEPT ![c] = @ + 1]
    /\ lastOp' = "receive"
    /\ lastSeq' = 0
    /\ calls' = <<>>
    /\ events' = <<>>
    /\ pre' = PreOf(mm)
    /\ delivered' = <<>>
    /\ bcast' = NoBroadcast
    /\ lastReq' = NoRequest
    /\ shown' = <<>>
    /\ UNCHANGED <<detail, robot, camera, locking, halt, nHandled, clients, video_clients, ws_running,
                   video_streaming, conn>>

\* WebSocketServer._handle_client: "async for" hands over the next waiting
\* message and the loop body handles it to its end
HandleNextOn(c) ==
    /\ inbox[c] # <<>>
    /\ HandleOne(c, NextMessage(inbox[c]).raw)
    /\ lastSeq' = NextMessage(inbox[c]).seq
    /\ inbox' = [inbox EXCEPT ![c] = Tail(@)]
    /\ nHandled' = [nHandled EXCEPT ![c] = @ + 1]
    /\ UNCHANGED nReceived

HandleNext == \E c \in Clients : HandleNextOn(c)

NextOrder == Start \/ Connect \/ Receive \/ HandleNext

\* connections whose clients send without waiting for the replies
SpecOrder == Init /\ [][NextOrder]_vars

\* WebSocketServer.broadcast_status called by the control loop with a status
\* or with a recognition_result message
BroadcastStatus ==
    /\ ws_running
    /\ clients # {}
    /\ lock = "none"
    /\ \E msg \in {StatusMessage, EventMessage}, o \in OutcomesFor(clients, conn) :
          LET reg == BroadcastStatusOp(N(clients, video_clients, <<>>), ws_running, msg, o)
          IN  /\ clients' = reg.clients
              /\ video_clients' = reg.video_clients
              /\ delivered' = reg.delivered
              /\ bcast' = [snap |-> clients, outcome |-> o]
    /\ lastOp' = "broadcast"
    /\ lastReq' = NoRequest
    /\ calls' = <<>>
    /\ events' = <<>>
    /\ pre' = PreOf(mm)
    /\ shown' = <<>>
    /\ UNCHANGED <<detail, robot, camera, queue, locking, halt, ws_running, video_streaming, conn>>

\* WebSocketServer._video_streaming_loop: one frame sent to list(self.video_clients)
VideoBroadcast ==
    /\ ws_running
    /\ video_streaming
    /\ video_clients # {}
    /\ lock = "none"
    /\ video_pc = "run"
    /\ \E o \in OutcomesFor(video_clients, conn) :
          LET reg == Broadcast(N(clients, video_clients, <<>>),
                               SetToSeq(video_clients), VideoMessage, o)
          IN  /\ clients' = reg.clients
              /\ video_clients' = reg.video_clients
              /\ delivered' = reg.delivered
              /\ bcast' = [snap |-> video_clients, outcome |-> o]
    /\ lastOp' = "broadcast"
    /\ lastReq' = NoRequest
    /\ calls' = <<>>
    /\ events' = <<>>
    /\ pre' = PreOf(mm)
    /\ shown' = <<FrameToSend(GetLatestFrame(latest_frame))>>
    /\ UNCHANGED <<detail, robot, camera, queue, locking, halt, ws_running, video_streaming, conn>>

\* VisionSystem._process_frames: the camera gave a frame and it is stored
CameraFrame ==
    /\ running
    /\ nPushed < MaxFrames
    /\ latest_frame' = PushFrame(latest_frame, nPushed + 1)
    /\ nPushed' = nPushed + 1
    /\ lastOp' = "frame"
    /\ calls' = <<>>
    /\ events' = <<>>
    /\ pre' = PreOf(mm)
    /\ delivered' = <<>>
    /\ bcast' = NoBroadcast
    /\ lastReq' = NoRequest
    /\ shown' = <<>>
    /\ UNCHANGED <<detail, robot, queue, locking, halt, clients, video_clients, ws_running,
                   video_streaming, conn>>

\* _video_streaming_loop with no video client: "with self.lock:" is entered
\* and time.sleep(0.1) is called inside it
VideoIdle ==
    /\ ws_running
    /\ video_streaming
    /\ video_clients = {}
    /\ lock = "none"
    /\ video_pc = "run"
    /\ lock' = "video"
    /\ video_pc' = "sleep"
    /\ lastOp' = "video_idle"
    /\ calls' = <<>>
    /\ events' = <<>>
    /\ pre' = PreOf(mm)
    /\ delivered' = <<>>
    /\ bcast' = NoBroadcast
    /\ lastReq' = NoRequest
    /\ shown' = <<>>
    /\ UNCHANGED <<detail, robot, camera, queue, halt, clients, video_clients, ws_running,
                   video_streaming, conn, video_snap>>

\* _video_streaming_loop: the sleep is over, "continue" leaves the with block
VideoWake ==
    /\ video_pc = "sleep"
    /\ lock' = IF lock = "video" THEN "none" ELSE lock
    /\ video_pc' = "run"
    /\ lastOp' = "video_wake"
    /\ calls' = <<>>
    /\ events' = <<>>
    /\ pre' = PreOf(mm)
    /\ delivered' = <<>>
    /\ bcast' = NoBroadcast
    /\ lastReq' = NoRequest
    /\ shown' = <<>>
    /\ UNCHANGED <<detail, robot, camera, queue, halt, clients, video_clients, ws_running,
                   video_streaming, conn, video_snap>>

\* ---- the main thread's tick, call by call, and the signal handler ---------------
\* the lock a call of the main thread takes while it runs: MovementController.lock
\* in stop/move/get_status, ServoController.lock in set_eye_color, follow_face,
\* raise_arms, lower_arms (move_servo_smooth) and get_status, VisionSystem.lock in
\* get_status and get_timestamp; the laser and sound calls take none
LockOf(call) ==
    IF call \in {"stop", "get_status:movement"} THEN "movement"
    ELSE IF call \in {"eye:green", "eye:yellow", "eye:red", "follow_face", "raise_arms",
                      "lower_arms", "get_status:servo"} THEN "servo"
    ELSE IF call \in {"get_status:vision", "get_timestamp"} THEN "vision"
    ELSE "none"

\* RobotController.get_status: the sub-system calls it makes, in order
StatusCalls == <<"get_status:vision", "get_status:servo", "get_status:movement",
                 "get_timestamp">>

\* RobotController.update begins: get_latest_data, and mode_manager.update has
\* chosen its branch; the branch's actuator calls are still to be made
TickBegin ==
    /\ pc = "update"
    /\ running
    /\ now < MaxTime
    /\ tick_pc = "idle"
    /\ stop_pc = "none"
    /\ \E direction \in Directions :
          pending' = ModeUpdate(mm, latest_data, now, direction).calls
    /\ tick_pc' = "acting"
    /\ calls' = <<>>
    /\ events' = <<>>
    /\ pre' = PreOf(mm)
    /\ lastOp' = "tick_begin"
    /\ UNCHANGED <<detail, robot, net, camera, shown, queue, locking, held, stop_pc, stopped>>

\* the main thread enters the "with self.lock:" block of its next call
TickCallEnter ==
    /\ tick_pc \in {"acting", "status"}
    /\ stop_pc = "none"
    /\ pending # <<>>
    /\ held = "none"
    /\ LockOf(Head(pending)) # "none"
    /\ held' = LockOf(Head(pending))
    /\ lastOp' = "tick_lock"
    /\ UNCHANGED <<detail, robot, net, camera, shown, queue, locking, calls, events, pre,
                   tick_pc, pending, stop_pc, stopped>>

\* the main thread's next call returns, its lock released
TickCallDone ==
    /\ tick_pc \in {"acting", "status"}
    /\ stop_pc = "none"
    /\ pending # <<>>
    /\ held = LockOf(Head(pending))
    /\ held' = "none"
    /\ pending' = Tail(pending)
    /\ calls' = IF tick_pc = "acting" THEN Append(calls, Head(pending)) ELSE calls
    /\ lastOp' = "tick_call"
    /\ UNCHANGED <<detail, robot, net, camera, shown, queue, locking, events, pre,
                   tick_pc, stop_pc, stopped>>

\* _update_surveillance_mode after the branch's actuator calls: the branch's
\* assignments to the alarm fields; then RobotController.update goes on to get_status
TickFields ==
    /\ tick_pc = "acting"
    /\ stop_pc = "none"
    /\ pending = <<>>
    /\ \E direction \in Directions :
          LET r == ModeUpdate(mm, latest_data, now, direction)
          IN  /\ mm' = r.m
              /\ events' = r.events
    /\ redTicks' = IF mm'.surveillance_intruder_detected
                   THEN IF ~mm.surveillance_intruder_detected THEN 0
                        ELSE IF UntrustedFaceTick(mm, latest_data, now)
                        THEN redTicks + 1 ELSE redTicks
                   ELSE 0
    /\ continuous' = IF UntrustedFaceTick(mm, latest_data, now)
                     THEN IF AlarmState(mm) = "IDLE" THEN TRUE ELSE continuous
                     ELSE FALSE
    /\ firstUntrusted' = FirstUntrustedAfter(firstUntrusted, mm, mm', latest_data, now)
    /\ pending' = StatusCalls
    /\ tick_pc' = "status"
    /\ lastOp' = "tick_fields"
    /\ UNCHANGED <<detail, latest_data, now, pc, running, nCommands, patrolMoves, net, camera, shown, queue,
                   locking, calls, pre, held, stop_pc, stopped>>

\* RobotController.update returns (broadcast_status has no client to send to)
TickEnd ==
    /\ tick_pc = "status"
    /\ stop_pc = "none"
    /\ pending = <<>>
    /\ tick_pc' = "idle"
    /\ pc' = "sleep"
    /\ lastOp' = "update"
    /\ UNCHANGED <<detail, mm, latest_data, now, running, redTicks, nCommands, continuous, patrolMoves, firstUntrusted, net,
                   camera, shown, queue, locking, calls, events, pre, pending, held,
                   stop_pc, stopped>>

\* SIGINT or SIGTERM: signal_handler starts on the main thread, on top of
\* whatever frame that thread is in
Signal ==
    /\ running
    /\ stop_pc = "none"
    /\ stop_pc' = "shutdown"
    /\ lastOp' = "signal"
    /\ UNCHANGED <<detail, robot, net, camera, shown, queue, locking, calls, events, pre,
                   tick_pc, pending, held, stopped>>

\* RobotController.shutdown: self.running = False, watchdog.stop()
ShutdownBegin ==
    /\ stop_pc = "shutdown"
    /\ running' = FALSE
    /\ stopped' = Append(stopped, "control")
    /\ stop_pc' = "websocket"
    /\ lastOp' = "shutdown"
    /\ UNCHANGED <<detail, mm, latest_data, now, pc, redTicks, nCommands, continuous, patrolMoves, firstUntrusted, net, camera,
                   shown, queue, locking, calls, events, pre, tick_pc, pending, held>>

\* WebSocketServer.stop: running = False, stop_video_streaming, then the server closed
ShutdownWebsocket ==
    /\ stop_pc = "websocket"
    /\ ws_running' = FALSE
    /\ video_streaming' = FALSE
    /\ stopped' = IF ws_running THEN stopped \o <<"video", "network">> ELSE stopped
    /\ stop_pc' = "movement"
    /\ lastOp' = "shutdown"
    /\ UNCHANGED <<detail, robot, clients, video_clients, conn, delivered, bcast, lastReq, camera,
                   shown, queue, locking, calls, events, pre, tick_pc, pending, held>>

\* movement_controller.stop(): "with self.lock:", then the stop command
ShutdownMovement ==
    /\ stop_pc = "movement"
    /\ held # "movement"
    /\ calls' = Append(calls, "stop")
    /\ stop_pc' = "servo"
    /\ lastOp' = "shutdown"
    /\ UNCHANGED <<detail, robot, net, camera, shown, queue, locking, events, pre,
                   tick_pc, pending, held, stopped>>

\* servo_controller.stop(): "with self.lock:", then reset_all
ShutdownServo ==
    /\ stop_pc = "servo"
    /\ held # "servo"
    /\ calls' = Append(calls, "reset_all")
    /\ stop_pc' = "vision"
    /\ lastOp' = "shutdown"
    /\ UNCHANGED <<detail, robot, net, camera, shown, queue, locking, events, pre,
                   tick_pc, pending, held, stopped>>

\* vision_system.stop(), then sys.exit(0): the interrupted frame is never resumed
ShutdownExit ==
    /\ stop_pc = "vision"
    /\ stop_pc' = "exit"
    /\ lastOp' = "exit"
    /\ UNCHANGED <<detail, robot, net, camera, shown, queue, locking, calls, events, pre,
                   tick_pc, pending, held, stopped>>

NextStop ==
    Start \/ Analyze \/ TickBegin \/ TickCallEnter \/ TickCallDone \/ TickFields
    \/ TickEnd \/ Sleep \/ Signal \/ ShutdownBegin \/ ShutdownWebsocket
    \/ ShutdownMovement \/ ShutdownServo \/ ShutdownExit

\* the main loop, its tick taken call by call, and a termination signal
SpecStop == Init /\ [][NextStop]_vars

\* the actuator calls of a tick whose failure is not caught on the way up:
\* set_eye_color writes the LEDs in _set_all_pixels (pixels.show()) outside any
\* try block, while move_servo_smooth, _control_servo, the laser, the sound and
\* _send_command catch their exceptions and return False
RaisingCalls == {"eye:green", "eye:yellow", "eye:red"}

\* set_eye_color raises after its "with self.lock:" block: nothing in
\* ModeManager.update or RobotController.update catches it, so it leaves update
\* and reaches "except Exception" of main(), which calls robot_controller.shutdown()
\* and raises it again (the process ends as in ShutdownExit)
TickCallRaises ==
    /\ tick_pc = "acting"
    /\ stop_pc = "none"
    /\ pending # <<>>
    /\ Head(pending) \in RaisingCalls
    /\ held = LockOf(Head(pending))
    /\ held' = "none"
    /\ pending' = Tail(pending)
    /\ tick_pc' = "raised"
    /\ stop_pc' = "shutdown"
    /\ lastOp' = "tick_raise"
    /\ UNCHANGED <<detail, robot, net, camera, shown, queue, locking, calls, events, pre, stopped>>

NextFail ==
    Start \/ Analyze \/ TickBegin \/ TickCallEnter \/ TickCallDone \/ TickCallRaises
    \/ TickFields \/ TickEnd \/ Sleep \/ ShutdownBegin \/ ShutdownWebsocket
    \/ ShutdownMovement \/ ShutdownServo \/ ShutdownExit

\* the main loop, its tick taken call by call, with LED writes that can fail
SpecFail == Init /\ [][NextFail]_vars

NextLock ==
    Start \/ Connect \/ PeerClose \/ HandlerExit \/ HandleMessage \/ VideoIdle \/ VideoWake

\* the threads that take WebSocketServer.lock
SpecLock == Init /\ [][NextLock]_vars

\* _video_streaming_loop: the frame is encoded and "with self.lock:
\* video_clients = list(self.video_clients)" has been executed
VideoSnapshot ==
    /\ ws_running
    /\ video_streaming
    /\ video_clients # {}
    /\ lock = "none"
    /\ video_pc = "run"
    /\ video_snap' = video_clients
    /\ video_pc' = "send"
    /\ shown' = <<FrameToSend(GetLatestFrame(latest_frame))>>
    /\ lastOp' = "video_snapshot"
    /\ calls' = <<>>
    /\ events' = <<>>
    /\ pre' = PreOf(mm)
    /\ delivered' = <<>>
    /\ bcast' = NoBroadcast
    /\ lastReq' = NoRequest
    /\ UNCHANGED <<detail, robot, camera, queue, halt, lock, clients, video_clients, ws_running,
                   video_streaming, conn>>

\* _video_streaming_loop: loop.run_until_complete(self._broadcast(message_json,
\* video_clients)) with the list copied before
VideoSend ==
    /\ video_pc = "send"
    /\ \E o \in OutcomesFor(video_snap, conn) :
          LET reg == Broadcast(N(clients, video_clients, <<>>),
                               SetToSeq(video_snap), VideoMessage, o)
          IN  /\ clients' = reg.clients
              /\ video_clients' = reg.video_clients
              /\ delivered' = reg.delivered
              /\ bcast' = [snap |-> video_snap, outcome |-> o]
    /\ video_snap' = {}
    /\ video_pc' = "run"
    /\ lastOp' = "video_send"
    /\ lastReq' = NoRequest
    /\ calls' = <<>>
    /\ events' = <<>>
    /\ pre' = PreOf(mm)
    /\ shown' = <<>>
    /\ UNCHANGED <<detail, robot, camera, queue, halt, lock, ws_running, video_streaming, conn>>

NextStream == Start \/ Connect \/ HandleMessage \/ VideoSnapshot \/ VideoSend

\* the video thread, its pass taken in two steps, with the connection handlers
SpecStream == Init /\ [][NextStream]_vars

NextVideo == Start \/ Connect \/ HandleMessage \/ CameraFrame \/ VideoBroadcast

\* the camera thread and the video loop with the clients that ask for video
SpecVideo == Init /\ [][NextVideo]_vars

NextNet ==
    Start \/ Connect \/ PeerClose \/ HandlerExit \/ HandleMessage
    \/ BroadcastStatus \/ VideoBroadcast

\* the websocket server with its clients, the clock standing still
SpecNet == Init /\ [][NextNet]_vars

Next == Start \/ Analyze \/ Update \/ Sleep \/ Command

NextPause == Start \/ Analyze \/ UpdateLate \/ SleepLate

\* the main loop without client commands, followed through a detection pause
SpecPause == Init /\ [][NextPause]_vars

NextModes == Start \/ Analyze \/ Update \/ Sleep \/ ModeCommand

\* the main loop with clients that switch the mode back and forth
SpecModes == Init /\ [][NextModes]_vars

Spec == Init /\ [][Next]_vars

\* a client's move command, handled by its connection handler and answered
MoveCommand ==
    /\ ws_running
    /\ \E c \in Clients, direction \in MoveInputs, is_continuous \in BOOLEAN, id \in Ids :
          /\ conn[c] \in {"open", "closed"}
          /\ LET r == HandleMove(movement, direction, is_continuous)
             IN  /\ movement' = r.movement
                 /\ calls' = r.calls
                 /\ lastMove' = [direction |-> direction, continuous |-> is_continuous,
                              success |-> r.result]
          /\ delivered' = WsSend(<<>>, conn[c] = "open", c, "result",
                                 IF id = "NoId" THEN "unknown" ELSE id)
          /\ lastReq' = [client |-> c, kind |-> "command", type |-> "move", id |-> id,
                         mode |-> "-"]
    /\ lastOp' = "move"
    /\ events' = <<>>
    /\ pre' = PreOf(mm)
    /\ bcast' = NoBroadcast
    /\ shown' = <<>>
    /\ UNCHANGED <<robot, camera, queue, locking, halt, clients, video_clients, ws_running,
                   video_streaming, conn, waiting, tick_writes, clear_writes,
                   video_threads, obs, snapshot>>

NextMove == Start \/ Connect \/ PeerClose \/ MoveCommand

\* the clients that steer the robot by hand
SpecMove == Init /\ [][NextMove]_vars

\* ---- broadcast_status on the main thread, its sends taken one by one --------------
\* the outcomes of the sends of one broadcast when a peer may be slow: "pending"
\* is an "await client.send(message)" that has not returned, the peer not reading
\* and its connection not closed
SlowOutcomesFor(snap, cn) ==
    { o \in [snap -> SendOutcomes \cup {"pending"}] :
        \A c \in snap : IF cn[c] = "open" THEN o[c] \in {"ok", "error", "pending"}
                        ELSE o[c] \in {"closed", "probe", "error"} }

\* RobotController.update calls broadcast_status: the client list is copied and
\* loop.run_until_complete(self._broadcast(...)) is entered; the gather has got
\* the result of every send except the pending ones
BroadcastStatusBegin ==
    /\ pc = "update"
    /\ ws_running
    /\ clients # {}
    /\ lock = "none"
    /\ \E o \in SlowOutcomesFor(clients, conn) :
          LET reg == BroadcastStatusOp(N(clients, video_clients, <<>>), ws_running,
                                       StatusMessage, o)
          IN  /\ clients' = reg.clients
              /\ video_clients' = reg.video_clients
              /\ delivered' = reg.delivered
              /\ bcast' = [snap |-> clients, outcome |-> o]
              /\ waiting' = {c \in clients : o[c] = "pending"}
    /\ pc' = "broadcast"
    /\ lastOp' = "broadcast_begin"
    /\ lastReq' = NoRequest
    /\ calls' = <<>>
    /\ events' = <<>>
    /\ pre' = PreOf(mm)
    /\ shown' = <<>>
    /\ UNCHANGED <<mm, latest_data, now, running, redTicks, nCommands, continuous,
                   patrolMoves, firstUntrusted, camera, queue, locking, halt,
                   ws_running, video_streaming, conn, movement, lastMove, tick_writes,
                   clear_writes, video_threads, obs, snapshot>>

\* a pending send returns: the peer has read (the message is delivered) or has
\* closed its connection (ConnectionClosed: _send_to_client discards the client)
SendCompletesOn(c) ==
    /\ pc = "broadcast"
    /\ c \in waiting
    /\    /\ waiting' = waiting \ {c}
          /\ LET reg == SendToClient(N(clients, video_clients, <<>>), c, StatusMessage,
                                     IF conn[c] = "open" THEN "ok" ELSE "closed")
             IN  /\ clients' = reg.clients
                 /\ video_clients' = reg.video_clients
                 /\ delivered' = reg.delivered
    /\ lastOp' = "send_done"
    /\ lastReq' = NoRequest
    /\ calls' = <<>>
    /\ events' = <<>>
    /\ pre' = PreOf(mm)
    /\ shown' = <<>>
    /\ UNCHANGED <<robot, camera, queue, locking, halt, ws_running, video_streaming, conn,
                   bcast, movement, lastMove, tick_writes, clear_writes, video_threads,
                   obs, snapshot>>

SendCompletes == \E c \in Clients : SendCompletesOn(c)

\* a pending send to a connection that is closed returns (ConnectionClosed)
ClosedSendReturns == \E c \in Clients : conn[c] # "open" /\ SendCompletesOn(c)

\* every send has returned: run_until_complete returns, broadcast_status and
\* RobotController.update return and the main loop goes on to its next tick
BroadcastStatusEnd ==
    /\ pc = "broadcast"
    /\ waiting = {}
    /\ pc' = "update"
    /\ lastOp' = "broadcast_end"
    /\ lastReq' = NoRequest
    /\ delivered' = <<>>
    /\ calls' = <<>>
    /\ events' = <<>>
    /\ pre' = PreOf(mm)
    /\ shown' = <<>>
    /\ UNCHANGED <<mm, latest_data, now, running, redTicks, nCommands, continuous,
                   patrolMoves, firstUntrusted, camera, queue, locking, halt, clients,
                   video_clients, ws_running, video_streaming, conn, bcast, detail>>

NextSlow ==
    Start \/ Connect \/ PeerClose \/ HandlerExit \/ BroadcastStatusBegin
    \/ SendCompletes \/ BroadcastStatusEnd

\* the main loop's status broadcasts to clients that may be slow to read
SpecSlow == Init /\ [][NextSlow]_vars

\* the main thread goes on whenever it can, and a send to a closed connection
\* fails at once: nothing but a send to a peer that stays connected and does not
\* read keeps the main thread from ending its tick
SpecSlowFair == SpecSlow /\ WF_vars(BroadcastStatusEnd) /\ WF_vars(ClosedSendReturns)

\* ---- the tick and clear_alarm, assignment by assignment ---------------------------
\* one assignment to a field of the mode manager
W(field, value) == [op |-> "set", field |-> field, value |-> value]

\* "self.surveillance_countdown -= 1" before its load: the value stored is the
\* one loaded then, minus one
CountdownLoad == [op |-> "load", field |-> "surveillance_countdown", value |-> 0]

\* _update_surveillance_mode: the branch taken for what the tests read, as the
\* assignments it makes, in the order of the code
SurveillanceWrites(m, vision_data, t) ==
    LET face_detected == vision_data.face_detected
        recognized_person == vision_data.recognized_person
    IN  IF t < m.detection_pause_until THEN <<>>
        ELSE IF face_detected /\ recognized_person # "None"
                /\ PersonIsSonia(recognized_person)
        THEN <<W("surveillance_yellow_warning", FALSE),
               W("surveillance_intruder_detected", FALSE),
               W("alarm_active", FALSE),
               W("surveillance_countdown", 0),
               W("detection_pause_until", t + PauseSeconds)>>
        ELSE IF face_detected
                /\ (recognized_person = "None" \/ ~PersonIsSonia(recognized_person))
        THEN IF ~m.surveillance_yellow_warning /\ ~m.surveillance_intruder_detected
             THEN <<W("surveillance_yellow_warning", TRUE),
                    W("surveillance_yellow_start_time", t)>>
             ELSE IF m.surveillance_yellow_warning
                     /\ ~m.surveillance_intruder_detected
                     /\ WarningElapsed(m, t)
             THEN <<W("surveillance_countdown", CountdownStart),
                    W("surveillance_yellow_warning", FALSE),
                    W("surveillance_intruder_detected", TRUE),
                    W("alarm_active", TRUE)>>
             ELSE IF m.surveillance_countdown > 0
             THEN <<CountdownLoad>>
             ELSE <<>>
        ELSE IF ~face_detected /\ m.surveillance_intruder_detected
        THEN IF ~m.alarm_active
             THEN <<W("surveillance_intruder_detected", FALSE),
                    W("surveillance_countdown", 0)>>
             ELSE <<W("surveillance_intruder_detected", TRUE)>>
        ELSE <<>>

\* ModeManager.update: only the surveillance mode writes alarm fields
TickWrites(m, vision_data, t) ==
    IF m.current_mode = "SURVEILLANCE" THEN SurveillanceWrites(m, vision_data, t)
    ELSE <<>>

\* ModeManager.clear_alarm: its three assignments
ClearAlarmWrites ==
    <<W("alarm_active", FALSE),
      W("surveillance_intruder_detected", FALSE),
      W("surveillance_countdown", 0)>>

\* the mode manager after the first step of the assignments ws
StepField(m, ws) ==
    IF Head(ws).op = "set" THEN [m EXCEPT ![Head(ws).field] = Head(ws).value] ELSE m

\* the assignments left after that step: a load leaves its store
StepRest(m, ws) ==
    IF Head(ws).op = "set" THEN Tail(ws)
    ELSE <<W(Head(ws).field, CountdownStep(m[Head(ws).field]))>> \o Tail(ws)

\* all the assignments ws made with nothing in between
RECURSIVE ApplyWrites(_, _)
ApplyWrites(m, ws) ==
    IF ws = <<>> THEN m ELSE ApplyWrites(StepField(m, ws), StepRest(m, ws))

\* the main thread enters mode_manager.update and has taken its branch
UpdateEnter ==
    /\ pc = "update"
    /\ running
    /\ now < MaxTime
    /\ tick_pc = "idle"
    /\ stop_pc = "none"
    /\ tick_writes' = TickWrites(mm, latest_data, now)
    /\ tick_pc' = "writing"
    /\ pre' = PreOf(mm)
    /\ lastOp' = "tick_begin"
    /\ calls' = <<>>
    /\ events' = <<>>
    /\ UNCHANGED <<robot, net, camera, shown, queue, locking, pending, held, stop_pc,
                   stopped, movement, lastMove, waiting, clear_writes, video_threads,
                   obs, snapshot>>

\* the main thread makes the next step of its branch's assignments
UpdateWrite ==
    /\ tick_pc = "writing"
    /\ tick_writes # <<>>
    /\ mm' = StepField(mm, tick_writes)
    /\ tick_writes' = StepRest(mm, tick_writes)
    /\ lastOp' = "tick_write"
    /\ UNCHANGED <<latest_data, now, pc, running, redTicks, nCommands, continuous,
                   patrolMoves, firstUntrusted, net, camera, shown, queue, locking, halt,
                   calls, events, pre, movement, lastMove, waiting, clear_writes,
                   video_threads, obs, snapshot>>

\* the branch is done: RobotController.update returns
UpdateLeave ==
    /\ tick_pc = "writing"
    /\ tick_writes = <<>>
    /\ tick_pc' = "idle"
    /\ pc' = "sleep"
    /\ lastOp' = "update"
    /\ UNCHANGED <<mm, latest_data, now, running, redTicks, nCommands, continuous,
                   patrolMoves, firstUntrusted, net, camera, shown, queue, locking,
                   pending, held, stop_pc, stopped, calls, events, pre, detail>>

\* a clear_alarm command reaches ModeManager.clear_alarm on the websocket thread
ClearAlarmEnter ==
    /\ running
    /\ nCommands < MaxCommands
    /\ clear_writes = <<>>
    /\ clear_writes' = ClearAlarmWrites
    /\ nCommands' = nCommands + 1
    /\ lastOp' = "clear_begin"
    /\ UNCHANGED <<mm, latest_data, now, pc, running, redTicks, continuous, patrolMoves,
                   firstUntrusted, net, camera, shown, queue, locking, halt, calls,
                   events, pre, movement, lastMove, waiting, tick_writes, video_threads,
                   obs, snapshot>>

\* the websocket thread makes the next assignment of clear_alarm
ClearAlarmWrite ==
    /\ clear_writes # <<>>
    /\ mm' = StepField(mm, clear_writes)
    /\ clear_writes' = StepRest(mm, clear_writes)
    /\ lastOp' = IF Len(clear_writes) = 1 THEN "clear_alarm" ELSE "clear_write"
    /\ UNCHANGED <<latest_data, now, pc, running, redTicks, nCommands, continuous,
                   patrolMoves, firstUntrusted, net, camera, shown, queue, locking, halt,
                   calls, events, pre, movement, lastMove, waiting, tick_writes,
                   video_threads, obs, snapshot>>

NextRace ==
    Start \/ Analyze \/ UpdateEnter \/ UpdateWrite \/ UpdateLeave \/ Sleep
    \/ ClearAlarmEnter \/ ClearAlarmWrite

\* the main loop and a clear_alarm command on the websocket thread, both taken
\* one assignment at a time
SpecRace == Init /\ [][NextRace]_vars

\* ---- the threads that run _video_streaming_loop -----------------------------------
\* a start_video_stream or stop_video_stream command handled by its connection
\* handler. start_video_streaming starts a new thread when video_streaming is not
\* set; stop_video_streaming clears the flag and joins self.video_thread for 1 s:
\* joined says whether that thread saw the flag and ended within that time
VideoCommand ==
    /\ ws_running
    /\ lock = "none"
    /\ \E c \in Clients, type \in {"start_video_stream", "stop_video_stream"},
          id \in Ids, joined \in BOOLEAN :
          LET data == [kind |-> "command", type |-> type, id |-> id, mode |-> "-"]
              h == WsHandleCommand(mm, video_clients, video_streaming, c, data,
                                   conn[c] = "open", TRUE, now)
              starts == ~video_streaming /\ h.video_streaming
              stops == video_streaming /\ ~h.video_streaming
          IN  /\ conn[c] \in {"open", "closed"}
              /\ starts => video_threads < MaxThreads
              /\ joined => (stops /\ video_threads > 0)
              /\ video_clients' = h.video_clients
              /\ video_streaming' = h.video_streaming
              /\ delivered' = h.delivered
              /\ video_threads' = IF starts THEN video_threads + 1
                                  ELSE IF joined THEN video_threads - 1
                                  ELSE video_threads
              /\ lastReq' = [client |-> c, kind |-> "command", type |-> type, id |-> id,
                             mode |-> "-"]
    /\ lastOp' = "message"
    /\ calls' = <<>>
    /\ events' = <<>>
    /\ pre' = PreOf(mm)
    /\ bcast' = NoBroadcast
    /\ shown' = <<>>
    /\ UNCHANGED <<robot, camera, queue, locking, halt, clients, ws_running, conn,
                   movement, lastMove, waiting, tick_writes, clear_writes, obs, snapshot>>

\* a thread in _video_streaming_loop evaluates "while self.video_streaming and
\* self.running" with the flag not set, and ends
VideoThreadExit ==
    /\ video_threads > 0
    /\ ~(video_streaming /\ ws_running)
    /\ video_threads' = video_threads - 1
    /\ lastOp' = "video_exit"
    /\ calls' = <<>>
    /\ events' = <<>>
    /\ pre' = PreOf(mm)
    /\ delivered' = <<>>
    /\ bcast' = NoBroadcast
    /\ lastReq' = NoRequest
    /\ shown' = <<>>
    /\ UNCHANGED <<robot, camera, queue, locking, halt, clients, video_clients,
                   ws_running, video_streaming, conn, movement, lastMove, waiting,
                   tick_writes, clear_writes, obs, snapshot>>

NextThreads ==
    Start \/ Connect \/ PeerClose \/ HandlerExit \/ VideoCommand \/ VideoThreadExit

\* the clients that switch the video stream on and off, and the video threads
SpecThreads == Init /\ [][NextThreads]_vars

\* ---- the video loop's clean-up of its registry --------------------------------------
\* _video_streaming_loop after max_errors errors: "with self.lock: self.video_clients
\* = {client for client in self.video_clients if not self._is_connection_closed(
\* client)}"; the probe may fail to see that a peer is gone, an open one is kept
VideoCleanup ==
    /\ ws_running
    /\ video_streaming
    /\ lock = "none"
    /\ video_pc = "run"
    /\ \E seen \in SUBSET {c \in video_clients : conn[c] # "open"} :
          video_clients' = video_clients \ seen
    /\ lastOp' = "video_cleanup"
    /\ calls' = <<>>
    /\ events' = <<>>
    /\ pre' = PreOf(mm)
    /\ delivered' = <<>>
    /\ bcast' = NoBroadcast
    /\ lastReq' = NoRequest
    /\ shown' = <<>>
    /\ UNCHANGED <<robot, camera, queue, locking, halt, clients, ws_running,
                   video_streaming, conn, detail>>

NextGone ==
    Start \/ Connect \/ PeerClose \/ HandlerExit \/ VideoCommand \/ BroadcastStatus
    \/ VideoSnapshot \/ VideoSend \/ VideoCleanup

\* the connection handlers coming and going under the status broadcasts and the
\* video thread's sends and clean-ups
SpecGone == Init /\ [][NextGone]_vars

\* ---- get_status while the perception thread publishes -----------------------------
\* VisionSystem._analyze_frame on the perception thread: "with self.lock:
\* self.latest_data = data", data carrying its own timestamp
Publish ==
    /\ running
    /\ obs < MaxFrames
    /\ \E nfaces \in 0..1, class_name \in ClassNames, above \in BOOLEAN :
          latest_data' = AnalyzeFrame(nfaces, class_name, above)
    /\ obs' = obs + 1
    /\ lastOp' = "analyze"
    /\ calls' = <<>>
    /\ events' = <<>>
    /\ pre' = PreOf(mm)
    /\ UNCHANGED <<mm, now, pc, running, redTicks, nCommands, continuous, patrolMoves,
                   firstUntrusted, net, camera, shown, queue, locking, halt, movement,
                   lastMove, waiting, tick_writes, clear_writes, video_threads, snapshot>>

\* RobotController.get_status: vision_status = self.vision_system.get_status(),
\* which reads the vision fields of latest_data inside one "with self.lock:"
StatusVision ==
    /\ running
    /\ pc = "update"
    /\ snapshot = <<>>
    /\ snapshot' = <<obs>>
    /\ lastOp' = "get_status:vision"
    /\ calls' = <<>>
    /\ events' = <<>>
    /\ pre' = PreOf(mm)
    /\ UNCHANGED <<robot, net, camera, shown, queue, locking, halt, movement, lastMove,
                   waiting, tick_writes, clear_writes, video_threads, obs>>

\* RobotController.get_status, after the status of the servos, the movement and
\* the mode: "timestamp": self.vision_system.get_timestamp(), which takes the
\* lock again; the status is complete
StatusTimestamp ==
    /\ Len(snapshot) = 1
    /\ snapshot' = Append(snapshot, obs)
    /\ lastOp' = "get_timestamp"
    /\ UNCHANGED <<robot, net, camera, shown, queue, locking, halt, calls, events, pre,
                   movement, lastMove, waiting, tick_writes, clear_writes, video_threads,
                   obs>>

\* the status is handed to broadcast_status and the tick ends
StatusDone ==
    /\ Len(snapshot) = 2
    /\ snapshot' = <<>>
    /\ lastOp' = "update"
    /\ UNCHANGED <<robot, net, camera, shown, queue, locking, halt, calls, events, pre,
                   movement, lastMove, waiting, tick_writes, clear_writes, video_threads,
                   obs>>

NextStatus == Start \/ Publish \/ StatusVision \/ StatusTimestamp \/ StatusDone

\* the main thread building status after status while the perception thread
\* publishes its observations
SpecStatus == Init /\ [][NextStatus]_vars

\* ---- properties ------------------------------------------------------------------
\* this step is one RobotController.update
IsUpdate == pc = "update" /\ pc' = "sleep"

\* the observation of this tick is the trusted person, seen by a surveillance
\* tick outside the detection pause
TrustedTick(m, vision_data, t) ==
    /\ m.current_mode = "SURVEILLANCE"
    /\ t >= m.detection_pause_until
    /\ PersonIsSonia(vision_data.recognized_person)

\* the clients the last operation delivered a message to, with multiplicity
DeliveriesTo(c) == {i \in DOMAIN delivered : delivered[i].to = c}

\* C1: every inbound command message that carries an id gets exactly one
\* outbound message with that same id, delivered to the client that sent it
\* (as long as its connection is open), whatever the message type.
C1_OneReplyWithSameId ==
    (lastOp = "message" /\ lastReq.kind = "command" /\ lastReq.id # "NoId"
        /\ conn[lastReq.client] = "open")
    => Cardinality({i \in DeliveriesTo(lastReq.client) :
                        delivered[i].id = lastReq.id}) = 1

\* C2: in one broadcast, every client whose own send succeeds receives the
\* message exactly once, whatever happens to the sends to the other clients.
C2_FailureSkipsNoOtherClient ==
    lastOp = "broadcast"
    => \A c \in bcast.snap :
          bcast.outcome[c] = "ok" => Cardinality(DeliveriesTo(c)) = 1

\* a broadcast in which one client's send failed and another client received
C2_Witness ==
    /\ lastOp = "broadcast"
    /\ \E k \in bcast.snap, c \in bcast.snap :
          /\ k < c
          /\ bcast.outcome[k] \in {"closed", "error"}
          /\ bcast.outcome[c] = "ok"
          /\ DeliveriesTo(c) # {}

\* C3: after a broadcast, every client whose send failed or whose liveness
\* probe reported it closed is in neither clients nor video_clients.
C3_FailedClientRemoved ==
    lastOp = "broadcast"
    => \A c \in bcast.snap :
          bcast.outcome[c] # "ok" => c \notin clients /\ c \notin video_clients

\* C4: the alarm sub-state changes only from IDLE to YELLOW_WARNING on an
\* untrusted-face tick, from YELLOW_WARNING to RED_ALARM on an untrusted-face
\* tick once the warning time has elapsed, and back to IDLE by a trusted
\* recognition, by clear_alarm or by a no-face tick with the alarm not active;
\* no step goes from IDLE to RED_ALARM.
C4_Edge ==
    LET a == AlarmState(mm)
        b == AlarmState(mm')
    IN  a # b =>
          \/ /\ a = "IDLE" /\ b = "YELLOW_WARNING"
             /\ IsUpdate /\ UntrustedFaceTick(mm, latest_data, now)
          \/ /\ a = "YELLOW_WARNING" /\ b = "RED_ALARM"
             /\ IsUpdate /\ UntrustedFaceTick(mm, latest_data, now)
             /\ now - mm.surveillance_yellow_start_time >= YellowSeconds
          \/ /\ b = "IDLE"
             /\ \/ IsUpdate /\ TrustedTick(mm, latest_data, now)
                \/ IsUpdate /\ ~latest_data.face_detected /\ ~mm.alarm_active
                \/ lastOp' = "clear_alarm"

C4_AlarmEdgesOnly == [][C4_Edge]_vars

\* a tick has just raised the red alarm out of a warning
C4_Witness ==
    /\ lastOp = "update"
    /\ pre.alarm = "YELLOW_WARNING"
    /\ AlarmState(mm) = "RED_ALARM"
    /\ events = <<"alarm">>

\* C5: a surveillance tick outside the detection pause that sees the trusted
\* person leaves the alarm IDLE, not active, the countdown 0 and the pause
\* ending 30 s after the tick's time, whatever the alarm state was before.
C5_Step ==
    (IsUpdate /\ TrustedTick(mm, latest_data, now))
    => /\ AlarmState(mm') = "IDLE"
       /\ ~mm'.alarm_active
       /\ mm'.surveillance_countdown = 0
       /\ mm'.detection_pause_until = now + PauseSeconds

C5_TrustedResetsAndPauses == [][C5_Step]_vars

\* the trusted person was recognized in the middle of a red alarm's countdown
C5_Witness ==
    /\ lastOp = "update"
    /\ events = <<"recognized">>
    /\ pre.alarm = "RED_ALARM"
    /\ pre.countdown \in 1..(CountdownStart - 1)
    /\ AlarmState(mm) = "IDLE"
    /\ mm.detection_pause_until = now + PauseSeconds

\* C6: a surveillance tick inside the detection pause changes no field of the
\* mode manager, calls no actuator and emits no event, whatever it observes.
C6_Step ==
    (IsUpdate /\ mm.current_mode = "SURVEILLANCE" /\ now < mm.detection_pause_until)
    => /\ mm' = mm
       /\ calls' = <<>>
       /\ events' = <<>>

C6_PausedTickIsNoOp == [][C6_Step]_vars

\* a tick inside the pause had an untrusted face before it and did nothing
C6_Witness ==
    /\ lastOp = "update"
    /\ pc = "sleep"
    /\ mm.current_mode = "SURVEILLANCE"
    /\ now < mm.detection_pause_until
    /\ latest_data.face_detected
    /\ ~PersonIsSonia(latest_data.recognized_person)
    /\ calls = <<>>
    /\ events = <<>>

\* C7: the red alarm is raised only by a tick that comes at least 5 s after the
\* warning started and after an untrusted face on every tick since then.
C7_RedOnlyAfterContinuousPresence ==
    (lastOp = "update" /\ pre.alarm = "YELLOW_WARNING" /\ AlarmState(mm) = "RED_ALARM")
    => continuous

\* C8: while the red alarm holds, the countdown is 10 less the number of
\* untrusted-face ticks since the alarm was raised, and never less than 0;
\* the red alarm stays raised and active over every step that is neither a
\* clear_alarm nor a trusted recognition, no-face ticks included.
C8_Countdown ==
    /\ mm.surveillance_countdown >= 0
    /\ AlarmState(mm) = "RED_ALARM"
       => mm.surveillance_countdown =
             IF redTicks >= CountdownStart THEN 0 ELSE CountdownStart - redTicks

C8_Held ==
    (/\ AlarmState(mm) = "RED_ALARM"
     /\ mm.alarm_active
     /\ lastOp' # "clear_alarm"
     /\ ~(IsUpdate /\ TrustedTick(mm, latest_data, now)))
    => AlarmState(mm') = "RED_ALARM" /\ mm'.alarm_active

C8_CountdownAndHold == [](C8_Countdown) /\ [][C8_Held]_vars

\* a no-face tick after the countdown ran out: the alarm is still raised
C8_Witness ==
    /\ lastOp = "update"
    /\ pc = "sleep"
    /\ ~latest_data.face_detected
    /\ redTicks = CountdownStart
    /\ pre.alarm = "RED_ALARM"
    /\ pre.countdown = 0
    /\ AlarmState(mm) = "RED_ALARM"
    /\ mm.alarm_active
    /\ mm.surveillance_countdown = 0

C10_ClearedIsIdle ==
    lastOp = "clear_alarm"
    => /\ AlarmState(mm) = "IDLE"
       /\ ~mm.alarm_active
       /\ mm.surveillance_countdown = 0

\* C11: the warning flag and the intruder flag are never both set, after any
\* sequence of update ticks, set_mode commands and clear_alarm commands.
C11_YellowRedExclusive ==
    ~(mm.surveillance_yellow_warning /\ mm.surveillance_intruder_detected)

\* a tick after a handled command has just turned a warning into the red alarm
C11_Witness ==
    /\ lastOp = "update"
    /\ nCommands > 0
    /\ pre.alarm = "YELLOW_WARNING"
    /\ mm.surveillance_intruder_detected
    /\ ~mm.surveillance_yellow_warning

\* C12: after every operation, a countdown above 0 means the red alarm is
\* raised, and the red alarm is raised exactly when alarm_active is set (so
\* never red, not active and counting).
C12_RedIffActive ==
    /\ mm.surveillance_countdown > 0 => AlarmState(mm) = "RED_ALARM"
    /\ AlarmState(mm) = "RED_ALARM" <=> mm.alarm_active

\* clear_alarm has just stopped a red alarm in the middle of its countdown
C12_Witness ==
    /\ lastOp = "clear_alarm"
    /\ pre.alarm = "RED_ALARM"
    /\ pre.countdown \in 1..(CountdownStart - 1)
    /\ mm.surveillance_countdown = 0
    /\ ~mm.alarm_active
    /\ AlarmState(mm) # "RED_ALARM"

C14_InReceiptOrder ==
    (lastOp = "message" /\ lastSeq > 0)
    => LET c == lastReq.client
       IN  /\ lastSeq = nHandled[c]
           /\ \A i \in DOMAIN inbox[c] : inbox[c][i].seq = lastSeq + i
           /\ \A i \in DOMAIN delivered : delivered[i].to = c

\* the second message of a connection, a set_mode, has just been handled and
\* answered while a third is waiting
C14_Witness ==
    /\ lastOp = "message"
    /\ lastSeq = 2
    /\ inbox[lastReq.client] # <<>>
    /\ lastReq.type = "set_mode"
    /\ mm.current_mode = "MANUAL"
    /\ Len(delivered) = 1
    /\ delivered[1].id = lastReq.id

\* C15: handling a payload that is not JSON, or not an object with a type,
\* sends nothing, calls no actuator, leaves the mode manager, the registry and
\* the connection as they were, and the next message waiting on the same
\* connection can still be handled.
C15_Step ==
    (lastOp' = "message" /\ lastReq'.kind # "command")
    => /\ delivered' = <<>>
       /\ calls' = <<>>
       /\ events' = <<>>
       /\ mm' = mm
       /\ clients' = clients
       /\ video_clients' = video_clients
       /\ video_streaming' = video_streaming
       /\ conn' = conn

C15_NextStillHandled ==
    (lastOp = "message" /\ lastReq.kind # "command" /\ inbox[lastReq.client] # <<>>)
    => /\ lastReq.client \in clients
       /\ ENABLED HandleNextOn(lastReq.client)

C15_MalformedDropped == [](C15_NextStillHandled) /\ [][C15_Step]_vars

\* a payload that is not JSON has just been dropped on a registered connection
\* with a set_mode waiting behind it
C15_Witness ==
    /\ lastOp = "message"
    /\ lastReq.kind = "garbage"
    /\ lastSeq = 1
    /\ lastReq.client \in clients
    /\ inbox[lastReq.client] # <<>>
    /\ Head(inbox[lastReq.client]).raw.type = "set_mode"
    /\ delivered = <<>>

\* C16: a set_mode command whose mode name is none of the three modes, a
\* missing name included, leaves the mode manager untouched, calls no actuator
\* and is answered to its sender with one structured failure result carrying
\* the request id, never with an error message made from an exception.
C16_Step ==
    (/\ lastOp' = "message"
     /\ lastReq'.kind = "command"
     /\ lastReq'.type = "set_mode"
     /\ Upper(lastReq'.mode) \notin RobotMode
     /\ conn[lastReq'.client] = "open")
    => /\ mm' = mm
       /\ calls' = <<>>
       /\ HandleCommand(mm, [type |-> "set_mode", mode |-> lastReq'.mode], now, TRUE).result
             = "failure"
       /\ delivered' = <<[to |-> lastReq'.client, type |-> "result",
                          id |-> CommandId(lastReq')]>>

C16_InvalidModeStructuredFailure == [][C16_Step]_vars

\* C17: in every state set_mode to the current mode changes nothing and calls
\* no actuator; set_mode to another mode makes it the current mode, and its
\* actuator calls begin with the old mode's exit, whose first call is the one
\* stop of all motion, before any call of the new mode's entry.
C17_SetModeExitThenEnter ==
    \A mode \in RobotMode :
       LET r == SetMode(mm, mode, now)
           stops == {i \in DOMAIN r.calls : r.calls[i] = "stop"}
       IN  IF mode = mm.current_mode
           THEN r.m = mm /\ r.calls = <<>> /\ r.events = <<>>
           ELSE /\ r.m.current_mode = mode
                /\ mm.current_mode # NoMode
                   => /\ stops = {1}
                      /\ mm.current_mode = "MANUAL"
                         => /\ Len(r.calls) >= 3
                            /\ r.calls[2] = "stop_natural_blinking"
                            /\ r.calls[3] = "stop_arm_swinging"
                      /\ mode = "PATROL" => r.calls[Len(r.calls)] = "eye:yellow"
                      /\ mode = "MANUAL" => r.calls[Len(r.calls)] = "stop_arm_swinging"
                      /\ r.m.face_tracking_enabled = (mode = "SURVEILLANCE")

\* a set_mode command has just taken the robot from surveillance to patrol
C17_Witness ==
    /\ lastOp = "set_mode"
    /\ mm.current_mode = "PATROL"
    /\ ~mm.face_tracking_enabled
    /\ Len(calls) = 5
    /\ calls[1] = "stop"
    /\ calls[5] = "eye:yellow"

\* C18: once the robot has started, the current mode changes only in the
\* handling of a set_mode command: no other command type and no tick changes it.
C18_Step ==
    (mm.current_mode # NoMode /\ mm'.current_mode # mm.current_mode)
    => lastOp' = "set_mode"

C18_ModeOnlyBySetMode == [][C18_Step]_vars

\* C19: when an operation has emitted events, every registered client whose
\* connection is open has been sent a recognition_result for each of them, also
\* when the events were emitted while a client command was handled.
C19_EventsReachConnectedClients ==
    events # <<>>
    => \A c \in clients :
          conn[c] = "open"
          => Cardinality({i \in DeliveriesTo(c) : delivered[i].type = EventMessage.type})
                >= Len(events)

\* C20: no thread is inside a blocking call (a sleep or a send) while it
\* holds the client-registry lock.
C20_NoBlockingUnderLock ==
    ~(lock = "video" /\ video_pc = "sleep")

\* the operations that run on the websocket event-loop thread: the connection
\* handler's registration, message loop and finally block
NetworkOps == {"connect", "message", "handler_exit", "receive", "peer_close"}

\* C21: the client registry (clients, video_clients) is changed only by steps of
\* the websocket event-loop thread, never by a broadcast made on the control-loop
\* thread or on the video thread.
C21_Step ==
    (clients' # clients \/ video_clients' # video_clients) => lastOp' \in NetworkOps

C21_RegistryOnlyOnNetworkThread == [][C21_Step]_vars

\* the operations that run on the control-loop thread (the main thread)
ControlOps == {"start", "update", "sleep"}

\* C22: the fields of the mode/alarm state machine are written only by steps of
\* the control-loop thread; the websocket thread, handling a client's command,
\* does not write them.
C22_Step == mm' # mm => lastOp' \in ControlOps

C22_StateMachineOnlyOnControlThread == [][C22_Step]_vars

\* C23: no thread waits for a lock while it holds that same lock or another
\* one; here: the signal handler never asks for a lock that the frame it
\* interrupted on the main thread is holding.
C23_NoWaitWhileHolding ==
    ~(stop_pc \in {"movement", "servo"} /\ held = stop_pc)

\* C24: the system stops in order: the control loop first, its current tick
\* finished and no actuator sequence cut, then the video loop, then the network.
C24_OrderlyStop ==
    /\ \E n \in 0..3 : stopped = SubSeq(<<"control", "video", "network">>, 1, n)
    /\ stopped # <<>> => (tick_pc = "idle" /\ pending = <<>>)

\* C25: a video_frame is delivered only to a client that is subscribed to video
\* when the frame is sent: never to a client that did not ask for video, nor to
\* one whose stop_video_stream has been handled and answered.
C25_VideoOnlyToSubscribers ==
    lastOp \in {"video_send", "broadcast"} =>
        \A i \in DOMAIN delivered :
            delivered[i].type = VideoMessage.type => delivered[i].to \in video_clients

\* C26: every surveillance tick outside the detection pause that starts in
\* RED_ALARM with countdown > 0 and does not see the trusted person lowers the
\* countdown by exactly 1 and emits one countdown event, with an untrusted face
\* or with no face in view; and the countdown never grows while RED_ALARM holds.
C26_Step ==
    /\ (IsUpdate /\ mm.current_mode = "SURVEILLANCE"
           /\ now >= mm.detection_pause_until
           /\ AlarmState(mm) = "RED_ALARM"
           /\ mm.surveillance_countdown > 0
           /\ ~PersonIsSonia(latest_data.recognized_person))
        => (/\ mm'.surveillance_countdown = mm.surveillance_countdown - 1
            /\ events' = <<"countdown">>)
    /\ (AlarmState(mm) = "RED_ALARM" /\ AlarmState(mm') = "RED_ALARM")
        => mm'.surveillance_countdown <= mm.surveillance_countdown

C26_CountdownEveryTick == [][C26_Step]_vars

\* C27: a surveillance tick outside the detection pause that sees no face while
\* the alarm is not active leaves AlarmState = IDLE, whatever it was before
\* (YELLOW_WARNING included), and emits the clear event exactly when the state
\* was not IDLE before, so once per transition.
C27_Step ==
    (IsUpdate /\ mm.current_mode = "SURVEILLANCE"
        /\ now >= mm.detection_pause_until
        /\ ~latest_data.face_detected
        /\ ~mm.alarm_active)
    => (/\ AlarmState(mm') = "IDLE"
        /\ IF AlarmState(mm) # "IDLE" THEN events' = <<"clear">> ELSE events' = <<>>)

C27_NoFaceClearsToIdle == [][C27_Step]_vars

\* C28: a set_mode that enters SURVEILLANCE from another mode leaves face
\* tracking enabled and AlarmState = IDLE: no warning, no red flag, alarm not
\* active, countdown 0, whatever an earlier surveillance period left behind.
C28_Step ==
    (lastOp' = "set_mode" /\ mm.current_mode \in RobotMode \ {"SURVEILLANCE"}
        /\ mm'.current_mode = "SURVEILLANCE")
    => (/\ mm'.face_tracking_enabled
        /\ AlarmState(mm') = "IDLE"
        /\ ~mm'.alarm_active
        /\ mm'.surveillance_countdown = 0)

C28_EnterSurveillanceResetsAlarm == [][C28_Step]_vars

\* the movement_controller.move calls a patrol tick can make
PatrolMoveCalls == {"move:" \o direction : direction \in Directions}

\* C29: a tick issues a patrol move only while patrol_active is set (and the mode
\* is PATROL); the move's direction is forward, backward, left or right and the
\* tick's next and last call is the stop; two patrol moves are more than 5
\* seconds apart; with patrol_active false no tick moves the robot.
C29_PatrolMoveOnlyWhenActive ==
    /\ lastOp = "update" =>
          IF \E i \in DOMAIN calls : calls[i] \in PatrolMoveCalls
          THEN /\ mm.patrol_active
               /\ mm.current_mode = "PATROL"
               /\ Len(calls) = 2
               /\ calls[1] \in PatrolMoveCalls
               /\ calls[2] = "stop"
               /\ patrolMoves # <<>>
          ELSE TRUE
    /\ (lastOp = "update" /\ ~mm.patrol_active)
          => \A i \in DOMAIN calls : calls[i] \notin PatrolMoveCalls
    /\ \A i \in DOMAIN patrolMoves :
          i > 1 => patrolMoves[i] - patrolMoves[i - 1] > PatrolInterval

\* a tick has just made the second patrol move of the run, and stopped it
C29_Witness ==
    /\ lastOp = "update"
    /\ mm.patrol_active
    /\ Len(patrolMoves) = 2
    /\ Len(calls) = 2
    /\ calls[1] \in PatrolMoveCalls
    /\ calls[2] = "stop"

\* C30: escalation starts afresh after a trusted recognition and its pause: the
\* first untrusted-face tick outside the pause gives YELLOW_WARNING with the
\* warning's start time set to that tick, and RED_ALARM is raised only by a tick
\* at least 5 seconds after that one, whatever was seen during the pause and
\* whatever warning was in progress before the recognition.
C30_FreshEscalationAfterPause ==
    /\ (lastOp = "update" /\ firstUntrusted = <<now>>)
          => /\ AlarmState(mm) = "YELLOW_WARNING"
             /\ mm.surveillance_yellow_start_time = now
    /\ (lastOp = "update" /\ pre.alarm # "RED_ALARM" /\ AlarmState(mm) = "RED_ALARM")
          => /\ firstUntrusted # <<>>
             /\ now - Head(firstUntrusted) >= YellowSeconds

\* the red alarm has just been raised after a detection pause: the first
\* untrusted-face tick came when the pause ended, the alarm 5 seconds later
C30_Witness ==
    /\ lastOp = "update"
    /\ pre.alarm = "YELLOW_WARNING"
    /\ AlarmState(mm) = "RED_ALARM"
    /\ mm.detection_pause_until > PauseSeconds
    /\ firstUntrusted = <<mm.detection_pause_until>>
    /\ now = mm.detection_pause_until + YellowSeconds

\* the reply types the websocket server sends on its own
OwnReplyTypes == {"pong", "status_update", "command_response"}

\* C31: a ping, get_status, start_video_stream or stop_video_stream message is
\* answered by the websocket server itself: the mode manager's fields (mode,
\* alarm state, patrol_active) are unchanged, no actuator is called, no event is
\* emitted, and what is sent is the server's own reply, not a handler result.
C31_Step ==
    (lastOp' = "message" /\ lastReq'.kind = "command" /\ lastReq'.type \in ControlTypes)
    => (/\ mm' = mm
        /\ calls' = <<>>
        /\ events' = <<>>
        /\ \A i \in DOMAIN delivered' : delivered'[i].type \in OwnReplyTypes
        /\ conn[lastReq'.client] = "open" => Len(delivered') = 1)

C31_ControlPlaneHandledByServer == [][C31_Step]_vars

\* a stop_video_stream has just been answered while the robot is in MANUAL mode
C31_Witness ==
    /\ lastOp = "message"
    /\ lastReq.type = "stop_video_stream"
    /\ mm.current_mode = "MANUAL"
    /\ Len(delivered) = 1
    /\ delivered[1].type = "command_response"


\* C32: a failing actuator call of a tick never aborts the tick or the control
\* loop: after the failure the remaining calls of the branch are still made and
\* the loop keeps running (so the alarm fields are set and the status is broadcast).
C32_FailingCallNeverAbortsTick ==
    tick_pc = "raised" => (pending = <<>> /\ running /\ stop_pc = "none")

\* C33: a move command whose direction is not a valid direction leaves
\* current_direction and square_path_active unchanged, sends no motion command
\* to the hardware, and is answered with success = false.
C33_Step ==
    (lastOp' = "move" /\ lastMove'.direction \notin ValidDirections)
    => (/\ movement' = movement
        /\ calls' = <<>>
        /\ lastMove'.success = FALSE)

C33_InvalidMoveIsBadCommand == [][C33_Step]_vars

\* C34: publishing the status never blocks the control loop: a tick that has
\* entered broadcast_status ends, even if the send to some client never completes.
C34_TickEndsDespiteSlowClient == (pc = "broadcast") ~> (pc = "update")

\* C35: surveillance_countdown stays within 0..10 in every reachable state, also
\* when clear_alarm runs between the tick's "countdown > 0" test and its decrement.
C35_CountdownInRange == mm.surveillance_countdown \in 0..CountdownStart

\* C36: whenever a tick and a clear_alarm that ran concurrently with it have both
\* finished, alarm_active equals surveillance_intruder_detected.
C36_RaisedOrClearedAfterRace ==
    (tick_pc = "idle" /\ clear_writes = <<>>)
    => (mm.alarm_active = mm.surveillance_intruder_detected)

\* the assignments of SurveillanceWrites, made with nothing in between, give the
\* mode manager that UpdateSurveillanceMode gives
WritesAreTheUpdate ==
    mm.current_mode = "SURVEILLANCE"
    => ApplyWrites(mm, SurveillanceWrites(mm, latest_data, now))
       = UpdateSurveillanceMode(mm, latest_data, now).m

\* C37: at most one video streaming loop thread is running at any time, for every
\* sequence of start_video_stream and stop_video_stream commands and disconnects,
\* also after a stop whose join timed out.
C37_OneVideoThread == video_threads <= 1

\* C38: once a client's connection handler has terminated, the client is in
\* neither clients nor video_clients, whatever the status broadcasts, the video
\* loop's sends and clean-ups and the other clients' commands do afterwards.
C38_GoneStaysGone ==
    \A c \in Clients : conn[c] = "done" => (c \notin clients /\ c \notin video_clients)

\* the video thread has sent to a list copied while a client was still a video
\* client, after that client's handler terminated, another client being registered
C38_Witness ==
    /\ lastOp = "video_send"
    /\ \E c \in bcast.snap : conn[c] = "done"
    /\ clients # {}

\* C39: each status built by RobotController.get_status is coherent: its timestamp
\* and its vision fields come from one and the same observation, also when the
\* perception thread publishes a new one while the status is being built.
C39_StatusFromOneObservation == Len(snapshot) = 2 => snapshot[1] = snapshot[2]

====
